---- MODULE Spec2Model ----
(***************************************************************************)
(* Model of the doc4d syntax-checker parsing pipeline: Tokenizer,          *)
(* MalformationChecker, ParameterChecker and the Parser orchestrator.      *)
(* Strings are sequences of one-character strings; positions are 0-based   *)
(* as in the TypeScript source.                                            *)
(***************************************************************************)
EXTENDS Integers, Sequences, FiniteSets, TLC

\* ------------------------------------------------------------------------
\* Bounds of the model
\* ------------------------------------------------------------------------
\* Number of fragments an input string is assembled from.
MaxFrags == 3
\* Number of fragments of an input of the repeated-call specification.
MaxRepFrags == 2

\* Fragments in the parameter string of the first of two concurrent callers.
MaxConcFrags == 2

\* ------------------------------------------------------------------------
\* String helpers (JavaScript String.prototype semantics)
\* ------------------------------------------------------------------------
RECURSIVE Flatten(_)
Flatten(ss) == IF ss = <<>> THEN <<>> ELSE Head(ss) \o Flatten(Tail(ss))

\* s[i] for a 0-based index; "undefined" when out of range.
CharAt(s, i) == IF i >= 0 /\ i < Len(s) THEN s[i + 1] ELSE "undefined"

\* s.substring(from, to) with 0-based, end-exclusive indexes.
Substring(s, from, to) ==
    LET a == IF from < 0 THEN 0 ELSE IF from > Len(s) THEN Len(s) ELSE from
        b == IF to < 0 THEN 0 ELSE IF to > Len(s) THEN Len(s) ELSE to
        lo == IF a <= b THEN a ELSE b
        hi == IF a <= b THEN b ELSE a
    IN  SubSeq(s, lo + 1, hi)

\* s.startsWith(pat, at)
StartsWithAt(s, pat, at) ==
    /\ at + Len(pat) <= Len(s)
    /\ \A k \in 1..Len(pat) : s[at + k] = pat[k]

WhiteSpace == {" ", "\t", "\n", "\r"}

RECURSIVE TrimStart(_)
TrimStart(s) ==
    IF s # <<>> /\ Head(s) \in WhiteSpace THEN TrimStart(Tail(s)) ELSE s

RECURSIVE TrimEnd(_)
TrimEnd(s) ==
    IF s # <<>> /\ s[Len(s)] \in WhiteSpace
    THEN TrimEnd(SubSeq(s, 1, Len(s) - 1)) ELSE s

\* s.trim()
Trim(s) == TrimEnd(TrimStart(s))

\* s.indexOf(c) for a single character; -1 when absent.
IndexOf(s, c) ==
    IF \E k \in 1..Len(s) : s[k] = c
    THEN (CHOOSE k \in 1..Len(s) : s[k] = c /\ \A j \in 1..(k - 1) : s[j] # c) - 1
    ELSE -1

\* s.split(pat) for a non-empty literal pattern.
RECURSIVE SplitFrom(_, _, _, _)
SplitFrom(s, pat, at, start) ==
    IF at + Len(pat) > Len(s) THEN <<Substring(s, start, Len(s))>>
    ELSE IF StartsWithAt(s, pat, at)
         THEN <<Substring(s, start, at)>>
              \o SplitFrom(s, pat, at + Len(pat), at + Len(pat))
         ELSE SplitFrom(s, pat, at + 1, start)

Split(s, pat) == SplitFrom(s, pat, 0, 0)

\* s.replace(/pat/g, rep) for a non-empty literal pattern.
RECURSIVE ReplaceAllFrom(_, _, _, _)
ReplaceAllFrom(s, pat, rep, at) ==
    IF at >= Len(s) THEN <<>>
    ELSE IF StartsWithAt(s, pat, at)
         THEN rep \o ReplaceAllFrom(s, pat, rep, at + Len(pat))
         ELSE <<s[at + 1]>> \o ReplaceAllFrom(s, pat, rep, at + 1)

ReplaceAll(s, pat, rep) == ReplaceAllFrom(s, pat, rep, 0)

\* A JavaScript value is truthy: for strings, the non-empty ones.
Truthy(s) == s # <<>>

Undefined == "undefined"

\* ------------------------------------------------------------------------
\* tokenizer.ts
\* ------------------------------------------------------------------------
TokenType ==
    [ PARAMETER_NAME   |-> "parameter_name",
      COLON            |-> "colon",
      TYPE             |-> "type",
      SEMICOLON        |-> "semicolon",
      OPEN_BRACE       |-> "open_brace",
      CLOSE_BRACE      |-> "close_brace",
      OPEN_PAREN       |-> "open_paren",
      CLOSE_PAREN      |-> "close_paren",
      ARROW            |-> "arrow",
      OPERATOR         |-> "operator",
      SPREAD           |-> "spread",
      ESCAPED_ASTERISK |-> "escaped_asterisk",
      LT               |-> "<",
      GT               |-> ">" ]

\* Property access on an enum object: a member that is not declared reads
\* as undefined.
EnumMember(enum, name) == IF name \in DOMAIN enum THEN enum[name] ELSE Undefined

\* The letters and digits that occur in the inputs of this model.
Letters == {"a", "b", "r", "p", "T", "E", "S", "C", "A", "P", "D", "I", "K", "R"}
Digits == {"0", "1"}

\* Tokenizer.IDENTIFIER_CHARS: 0-9, A-Z, a-z and _ - $ . / [ ] < >
IDENTIFIER_CHARS ==
    Letters \cup Digits \cup {"_", "-", "$", ".", "/", "[", "]", "<", ">"}

\* Characters of the model that are ASCII (code < 128).
Ascii ==
    IDENTIFIER_CHARS \cup WhiteSpace
        \cup {"(", ")", "{", "}", ":", ";", "*", "\\", ",", "@", "#"}

isIdentifierChar(char) ==
    IF char \in Ascii THEN char \in IDENTIFIER_CHARS ELSE TRUE

\* State of a Tokenizer instance right after construction.
NewTokenizer ==
    [input |-> <<>>, position |-> 0, tokens |-> <<>>, lastContextToken |-> "null"]

addToken(tk, type, value, position) ==
    [tk EXCEPT !.tokens = Append(@, [type |-> type, value |-> value,
                                      position |-> position]),
               !.lastContextToken = type]

\* determineIdentifierTypeFast answering TYPE where no case matches.
determineIdentifierTypeFast_DefaultType(tk) ==
    CASE tk.lastContextToken = TokenType.COLON -> TokenType.TYPE
      [] tk.lastContextToken \in {TokenType.SEMICOLON, TokenType.OPEN_BRACE,
                                  TokenType.OPEN_PAREN} -> TokenType.PARAMETER_NAME
      [] tk.lastContextToken \in {TokenType.PARAMETER_NAME, TokenType.SPREAD,
                                  TokenType.TYPE} -> TokenType.PARAMETER_NAME
      [] OTHER -> TokenType.TYPE

determineIdentifierTypeFast(tk) ==
    CASE tk.lastContextToken = TokenType.COLON -> TokenType.TYPE
      [] tk.lastContextToken \in {TokenType.SEMICOLON, TokenType.OPEN_BRACE,
                                  TokenType.OPEN_PAREN} -> TokenType.PARAMETER_NAME
      [] tk.lastContextToken \in {TokenType.PARAMETER_NAME, TokenType.SPREAD,
                                  TokenType.TYPE} -> TokenType.PARAMETER_NAME
      [] OTHER -> TokenType.PARAMETER_NAME

\* The while loops of scanIdentifier: first position at or after p that is
\* past the input or holds a non-identifier character.
RECURSIVE IdentifierEnd(_, _)
IdentifierEnd(input, p) ==
    IF p < Len(input) /\ isIdentifierChar(CharAt(input, p))
    THEN IdentifierEnd(input, p + 1) ELSE p

\* scanIdentifier without the skip of a character that starts no
\* identifier.
scanIdentifier_NoSkip(tk) ==
    LET start == tk.position
        in == tk.input
    IN  IF /\ CharAt(in, start) = "."
           /\ start + 1 < Len(in) /\ CharAt(in, start + 1) = "."
           /\ start + 2 < Len(in) /\ CharAt(in, start + 2) = "."
        THEN LET e == IdentifierEnd(in, start + 3)
             IN  addToken([tk EXCEPT !.position = e],
                          TokenType.SPREAD, Substring(in, start, e), start)
        ELSE LET e == IdentifierEnd(in, start)
             IN  IF e > start
                 THEN addToken([tk EXCEPT !.position = e],
                               determineIdentifierTypeFast(tk),
                               Substring(in, start, e), start)
                 ELSE tk

scanIdentifier(tk) ==
    LET start == tk.position
        in == tk.input
    IN  IF /\ CharAt(in, start) = "."
           /\ start + 1 < Len(in) /\ CharAt(in, start + 1) = "."
           /\ start + 2 < Len(in) /\ CharAt(in, start + 2) = "."
        THEN LET e == IdentifierEnd(in, start + 3)
             IN  addToken([tk EXCEPT !.position = e],
                          TokenType.SPREAD, Substring(in, start, e), start)
        ELSE LET e == IdentifierEnd(in, start)
             IN  IF e > start
                 THEN addToken([tk EXCEPT !.position = e],
                               determineIdentifierTypeFast(tk),
                               Substring(in, start, e), start)
                 ELSE [tk EXCEPT !.position = start + 1]

SingleCharTokens ==
    [c \in {":", ";", "{", "}", "(", ")", "*", "<", ">"} |->
        CASE c = ":" -> TokenType.COLON
          [] c = ";" -> TokenType.SEMICOLON
          [] c = "{" -> TokenType.OPEN_BRACE
          [] c = "}" -> TokenType.CLOSE_BRACE
          [] c = "(" -> TokenType.OPEN_PAREN
          [] c = ")" -> TokenType.CLOSE_PAREN
          [] c = "*" -> TokenType.OPERATOR
          [] c = "<" -> TokenType.LT
          [] c = ">" -> TokenType.GT]

\* One iteration of the loop of tokenize.
scanToken(tk) ==
    LET char == CharAt(tk.input, tk.position)
        p == tk.position
    IN  IF char \in {" ", "\t", "\n", "\r"}
        THEN [tk EXCEPT !.position = p + 1]
        ELSE IF char = "\\" /\ p + 1 < Len(tk.input) /\ CharAt(tk.input, p + 1) = "*"
        THEN [addToken(tk, TokenType.ESCAPED_ASTERISK, <<"\\", "*">>, p)
                 EXCEPT !.position = p + 2]
        ELSE IF char = "-" /\ p + 1 < Len(tk.input) /\ CharAt(tk.input, p + 1) = ">"
        THEN [addToken(tk, TokenType.ARROW, <<"-", ">">>, p)
                 EXCEPT !.position = p + 2]
        ELSE IF char \in DOMAIN SingleCharTokens
        THEN [addToken(tk, SingleCharTokens[char], <<char>>, p)
                 EXCEPT !.position = p + 1]
        ELSE scanIdentifier(tk)

RECURSIVE scanLoop(_)
scanLoop(tk) ==
    IF tk.position < Len(tk.input) THEN scanLoop(scanToken(tk)) ELSE tk

\* tokenizeReset without the assignment to lastContextToken.
tokenizeReset_KeepsContext(tk, input) ==
    [input |-> input, position |-> 0, tokens |-> <<>>,
     lastContextToken |-> tk.lastContextToken]

\* The assignments at the head of tokenize.
tokenizeReset(tk, input) ==
    [input |-> input, position |-> 0, tokens |-> <<>>, lastContextToken |-> "null"]

\* tokenize(input) on the instance tk: the instance after the call; the
\* value returned is its tokens field.
tokenize(tk, input) == scanLoop(tokenizeReset(tk, input))

\* ------------------------------------------------------------------------
\* types.ts
\* ------------------------------------------------------------------------
WarningLevel == [LEVEL_1 |-> 1, LEVEL_2 |-> 2]

WarningCode ==
    [ UNCLOSED_OPTIONAL_BLOCK              |-> "MAL001",
      EXTRA_CLOSING_BRACE                  |-> "MAL002",
      EMPTY_PARAMETER_DOUBLE_SEMICOLON     |-> "MAL003",
      EMPTY_PARAMETER_AT_START             |-> "MAL004",
      UNEXPECTED_COLON_NO_PARAM            |-> "MAL005",
      DOUBLE_COLON                         |-> "MAL006",
      UNEXPECTED_SEMICOLON_AFTER_COLON     |-> "MAL007",
      UNEXPECTED_CLOSING_BRACE_AFTER_COLON |-> "MAL008",
      MISSING_CLOSING_PARENTHESIS          |-> "MAL011",
      NON_ECMA_PARAMETER_NAME              |-> "MAL012",
      INVALID_TYPE_FORMAT                  |-> "MAL013",
      PARAMETER_EMPTY_TYPE_AFTER_COLON     |-> "PAR001",
      PARAMETER_MISSING_TYPE               |-> "PAR002" ]

\* The registry: level and message template of every warning id.
WARNING_DEFINITIONS ==
    [ MAL001 |-> [level |-> WarningLevel.LEVEL_1,
                  message |-> "Unclosed optional block (missing N closing braces)"],
      MAL002 |-> [level |-> WarningLevel.LEVEL_1,
                  message |-> "Extra closing brace (unmatched optional block closure)"],
      MAL003 |-> [level |-> WarningLevel.LEVEL_1,
                  message |-> "Empty parameter found (double semicolon)"],
      MAL004 |-> [level |-> WarningLevel.LEVEL_1,
                  message |-> "Empty parameter found (semicolon at start)"],
      MAL005 |-> [level |-> WarningLevel.LEVEL_1,
                  message |-> "Unexpected colon (missing parameter name)"],
      MAL006 |-> [level |-> WarningLevel.LEVEL_1,
                  message |-> "Double colon found in parameter definition"],
      MAL007 |-> [level |-> WarningLevel.LEVEL_1,
                  message |-> "Unexpected semicolon after colon"],
      MAL008 |-> [level |-> WarningLevel.LEVEL_1,
                  message |-> "Unexpected closing brace after colon"],
      MAL011 |-> [level |-> WarningLevel.LEVEL_1,
                  message |-> "Missing closing parenthesis"],
      MAL012 |-> [level |-> WarningLevel.LEVEL_1,
                  message |-> "Parameter name is not ECMA-compliant"],
      MAL013 |-> [level |-> WarningLevel.LEVEL_1,
                  message |-> "Type has invalid format"],
      PAR001 |-> [level |-> WarningLevel.LEVEL_2,
                  message |-> "Parameter has empty type after colon"],
      PAR002 |-> [level |-> WarningLevel.LEVEL_2,
                  message |-> "Parameter has no type (missing colon and type)"] ]

\* An issues array under construction.  threw records that the call was
\* aborted by an exception; nothing is added after that.
NoIssues == [issues |-> <<>>, threw |-> FALSE]

\* addIssue(code, ...args) of both checkers.  codeName is the member of
\* WarningCode the caller names; reading .message of the definition of an
\* undeclared member is a TypeError.
addIssue(acc, codeName, args) ==
    LET code == EnumMember(WarningCode, codeName)
    IN  IF acc.threw THEN acc
        ELSE IF code \notin DOMAIN WARNING_DEFINITIONS
        THEN [acc EXCEPT !.threw = TRUE]
        ELSE [acc EXCEPT !.issues =
                Append(@, [id |-> code,
                           message |-> <<WARNING_DEFINITIONS[code].message>> \o args,
                           level |-> WARNING_DEFINITIONS[code].level])]

\* tokens[i] for a 0-based index; the type of a missing token is undefined.
TypeAt(tokens, i) ==
    IF i >= 0 /\ i < Len(tokens) THEN tokens[i + 1].type ELSE Undefined

HasToken(tokens, i) == i >= 0 /\ i < Len(tokens)

\* ------------------------------------------------------------------------
\* malformation-checker.ts
\* ------------------------------------------------------------------------
\* BraceBalanceLoop without the reset of the depth to zero.
RECURSIVE BraceBalanceLoop_NoClamp(_, _, _, _)
BraceBalanceLoop_NoClamp(tokens, i, braceDepth, acc) ==
    IF i >= Len(tokens) THEN [depth |-> braceDepth, acc |-> acc]
    ELSE IF TypeAt(tokens, i) = TokenType.OPEN_BRACE
    THEN BraceBalanceLoop_NoClamp(tokens, i + 1, braceDepth + 1, acc)
    ELSE IF TypeAt(tokens, i) = TokenType.CLOSE_BRACE
    THEN IF braceDepth - 1 < 0
         THEN BraceBalanceLoop_NoClamp(tokens, i + 1, braceDepth - 1,
                                       addIssue(acc, "EXTRA_CLOSING_BRACE", <<>>))
         ELSE BraceBalanceLoop_NoClamp(tokens, i + 1, braceDepth - 1, acc)
    ELSE BraceBalanceLoop_NoClamp(tokens, i + 1, braceDepth, acc)

RECURSIVE BraceBalanceLoop(_, _, _, _)
BraceBalanceLoop(tokens, i, braceDepth, acc) ==
    IF i >= Len(tokens) THEN [depth |-> braceDepth, acc |-> acc]
    ELSE IF TypeAt(tokens, i) = TokenType.OPEN_BRACE
    THEN BraceBalanceLoop(tokens, i + 1, braceDepth + 1, acc)
    ELSE IF TypeAt(tokens, i) = TokenType.CLOSE_BRACE
    THEN IF braceDepth - 1 < 0
         THEN BraceBalanceLoop(tokens, i + 1, 0,
                               addIssue(acc, "EXTRA_CLOSING_BRACE", <<>>))
         ELSE BraceBalanceLoop(tokens, i + 1, braceDepth - 1, acc)
    ELSE BraceBalanceLoop(tokens, i + 1, braceDepth, acc)

checkBraceBalanceFast(tokens, acc) ==
    LET r == BraceBalanceLoop(tokens, 0, 0, acc)
    IN  IF r.depth > 0
        THEN addIssue(r.acc, "UNCLOSED_OPTIONAL_BLOCK", <<r.depth>>)
        ELSE r.acc

RECURSIVE checkEmptyParametersFastFrom(_, _, _)
checkEmptyParametersFastFrom(tokens, i, acc) ==
    IF i >= Len(tokens) THEN acc
    ELSE IF TypeAt(tokens, i) = TokenType.SEMICOLON
    THEN LET a1 == IF TypeAt(tokens, i + 1) = TokenType.SEMICOLON
                   THEN addIssue(acc, "EMPTY_PARAMETER_DOUBLE_SEMICOLON", <<>>)
                   ELSE acc
             a2 == IF ~HasToken(tokens, i - 1)
                   THEN addIssue(a1, "EMPTY_PARAMETER_AT_START", <<>>)
                   ELSE a1
         IN  checkEmptyParametersFastFrom(tokens, i + 1, a2)
    ELSE checkEmptyParametersFastFrom(tokens, i + 1, acc)

checkEmptyParametersFast(tokens, acc) == checkEmptyParametersFastFrom(tokens, 0, acc)

RECURSIVE checkUnexpectedTokensFastFrom(_, _, _)
checkUnexpectedTokensFastFrom(tokens, i, acc) ==
    IF i >= Len(tokens) THEN acc
    ELSE IF TypeAt(tokens, i) = TokenType.COLON
    THEN LET a1 == IF \/ ~HasToken(tokens, i - 1)
                      \/ /\ TypeAt(tokens, i - 1) # TokenType.PARAMETER_NAME
                         /\ TypeAt(tokens, i - 1) # TokenType.SPREAD
                   THEN addIssue(acc, "UNEXPECTED_COLON_NO_PARAM", <<>>)
                   ELSE acc
             a2 == IF TypeAt(tokens, i + 1) = TokenType.COLON
                   THEN addIssue(a1, "DOUBLE_COLON", <<>>)
                   ELSE a1
         IN  checkUnexpectedTokensFastFrom(tokens, i + 1, a2)
    ELSE checkUnexpectedTokensFastFrom(tokens, i + 1, acc)

checkUnexpectedTokensFast(tokens, acc) == checkUnexpectedTokensFastFrom(tokens, 0, acc)

RECURSIVE checkEmptyParametersFrom(_, _, _)
checkEmptyParametersFrom(tokens, i, acc) ==
    IF i >= Len(tokens) THEN acc
    ELSE LET a1 == IF i = 0 /\ TypeAt(tokens, i) = TokenType.SEMICOLON
                   THEN addIssue(acc, "EMPTY_PARAMETER_AT_START", <<>>)
                   ELSE acc
             a2 == IF /\ TypeAt(tokens, i) = TokenType.SEMICOLON
                      /\ TypeAt(tokens, i + 1) = TokenType.SEMICOLON
                   THEN addIssue(a1, "EMPTY_PARAMETER_DOUBLE_SEMICOLON", <<>>)
                   ELSE a1
         IN  checkEmptyParametersFrom(tokens, i + 1, a2)

checkEmptyParameters(tokens, acc) == checkEmptyParametersFrom(tokens, 0, acc)

RECURSIVE checkUnexpectedTokensFrom(_, _, _)
checkUnexpectedTokensFrom(tokens, i, acc) ==
    IF i >= Len(tokens) THEN acc
    ELSE LET isColon == TypeAt(tokens, i) = TokenType.COLON
             a1 == IF isColon /\ TypeAt(tokens, i + 1) = TokenType.SEMICOLON
                   THEN addIssue(acc, "UNEXPECTED_SEMICOLON_AFTER_COLON", <<>>)
                   ELSE acc
             a2 == IF isColon /\ TypeAt(tokens, i + 1) = TokenType.CLOSE_BRACE
                   THEN addIssue(a1, "UNEXPECTED_CLOSING_BRACE_AFTER_COLON", <<>>)
                   ELSE a1
             a3 == IF isColon /\ ~HasToken(tokens, i + 1)
                   THEN addIssue(a2, "PARAMETER_EMPTY_TYPE_AFTER_COLON", <<>>)
                   ELSE a2
         IN  checkUnexpectedTokensFrom(tokens, i + 1, a3)

checkUnexpectedTokens(tokens, acc) == checkUnexpectedTokensFrom(tokens, 0, acc)

Includes(s, c) == \E k \in 1..Len(s) : s[k] = c

RECURSIVE StructuralLoop(_, _, _)
StructuralLoop(tokens, i, acc) ==
    IF i >= Len(tokens) THEN acc
    ELSE LET tok == tokens[i + 1]
             a1 == IF tok.type = TokenType.PARAMETER_NAME /\ Includes(tok.value, "*")
                   THEN addIssue(acc, "MALFORMED_PARAMETER_NAME", <<tok.value>>)
                   ELSE acc
             a2 == IF tok.type = TokenType.TYPE /\ Includes(tok.value, "/")
                   THEN addIssue(a1, "INVALID_TYPE_FORWARD_SLASH", <<tok.value>>)
                   ELSE a1
         IN  StructuralLoop(tokens, i + 1, a2)

checkStructuralIssuesFast(tokens, acc) ==
    checkUnexpectedTokens(tokens,
        checkEmptyParameters(tokens, StructuralLoop(tokens, 0, acc)))

\* checkMalformations(tokens): the issues field of the checker after the
\* call and whether the call threw; the value returned is the issues field.
checkMalformations(tokens) ==
    LET nonWhitespaceTokens ==
            SelectSeq(tokens, LAMBDA t : t.type # EnumMember(TokenType, "WHITESPACE"))
    IN  checkStructuralIssuesFast(nonWhitespaceTokens,
            checkUnexpectedTokensFast(nonWhitespaceTokens,
                checkEmptyParametersFast(nonWhitespaceTokens,
                    checkBraceBalanceFast(nonWhitespaceTokens, NoIssues))))

\* ------------------------------------------------------------------------
\* malformation-checker.ts, revised (token-only checks, type format check)
\* ------------------------------------------------------------------------
UpperCase == <<"A", "B", "C", "D", "E", "F", "G", "H", "I", "J", "K", "L", "M", "N", "O", "P", "Q", "R", "S", "T", "U", "V", "W", "X", "Y", "Z">>
LowerCase == <<"a", "b", "c", "d", "e", "f", "g", "h", "i", "j", "k", "l", "m", "n", "o", "p", "q", "r", "s", "t", "u", "v", "w", "x", "y", "z">>

\* One character of String.prototype.toLowerCase.
toLowerChar(c) ==
    IF \E k \in 1..Len(UpperCase) : UpperCase[k] = c
    THEN LowerCase[CHOOSE k \in 1..Len(UpperCase) : UpperCase[k] = c]
    ELSE c

\* s.toLowerCase()
toLowerCase(s) == [k \in 1..Len(s) |-> toLowerChar(s[k])]

\* The constant validTypes, as a set: it is only searched with includes.
validTypes ==
    { <<"o", "b", "j", "e", "c", "t">>,
      <<"t", "e", "x", "t">>,
      <<"r", "e", "a", "l">>,
      <<"a", "n", "y">>,
      <<"i", "n", "t", "e", "g", "e", "r">>,
      <<"c", "o", "l", "l", "e", "c", "t", "i", "o", "n">>,
      <<"d", "a", "t", "e">>,
      <<"t", "i", "m", "e">>,
      <<"b", "o", "o", "l", "e", "a", "n">>,
      <<"p", "i", "c", "t", "u", "r", "e">>,
      <<"b", "l", "o", "b">>,
      <<"v", "a", "r", "i", "a", "n", "t">>,
      <<"p", "o", "i", "n", "t", "e", "r">>,
      <<"t", "e", "x", "t", " ", "a", "r", "r", "a", "y">>,
      <<"o", "b", "j", "e", "c", "t", " ", "a", "r", "r", "a", "y">>,
      <<"b", "o", "o", "l", "e", "a", "n", " ", "a", "r", "r", "a", "y">>,
      <<"i", "n", "t", "e", "g", "e", "r", " ", "a", "r", "r", "a", "y">>,
      <<"r", "e", "a", "l", " ", "a", "r", "r", "a", "y">>,
      <<"t", "i", "m", "e", " ", "a", "r", "r", "a", "y">>,
      <<"p", "o", "i", "n", "t", "e", "r", " ", "a", "r", "r", "a", "y">>,
      <<"a", "r", "r", "a", "y">>,
      <<"p", "i", "c", "t", "u", "r", "e", " ", "a", "r", "r", "a", "y">>,
      <<"d", "a", "t", "e", " ", "a", "r", "r", "a", "y">>,
      <<"e", "x", "p", "r", "e", "s", "s", "i", "o", "n">>,
      <<"t", "a", "b", "l", "e">>,
      <<"f", "i", "e", "l", "d">>,
      <<"v", "a", "r", "i", "a", "b", "l", "e">>,
      <<"o", "p", "e", "r", "a", "t", "o", "r">>,
      <<"n", "u", "l", "l">>,
      <<"u", "n", "d", "e", "f", "i", "n", "e", "d">>,
      <<"c", "o", "m", "p", "a", "r", "a", "t", "o", "r">> }

\* [a-zA-Z_$] and [a-zA-Z0-9_$] of prefixedTypeRegex
IsIdentStart(c) ==
    \/ \E k \in 1..Len(UpperCase) : c = UpperCase[k] \/ c = LowerCase[k]
    \/ c \in {"_", "$"}

IsIdentPart(c) ==
    IsIdentStart(c) \/ c \in {"0", "1", "2", "3", "4", "5", "6", "7", "8", "9"}

RECURSIVE IdentPartEnd(_, _)
IdentPartEnd(s, p) ==
    IF p < Len(s) /\ IsIdentPart(CharAt(s, p)) THEN IdentPartEnd(s, p + 1) ELSE p

\* Where a group (\.([a-zA-Z_$][a-zA-Z0-9_$]*)) that starts at p ends, -1
\* when none starts there.
PrefixedGroupEnd(s, p) ==
    IF p >= 0 /\ CharAt(s, p) = "." /\ p + 1 < Len(s) /\ IsIdentStart(CharAt(s, p + 1))
    THEN IdentPartEnd(s, p + 2)
    ELSE -1

\* /^(4D|cs)(\.([a-zA-Z_$][a-zA-Z0-9_$]*)){1,2}$/.test(typeName)
prefixedTypeRegex(typeName) ==
    /\ \/ StartsWithAt(typeName, <<"4", "D">>, 0)
       \/ StartsWithAt(typeName, <<"c", "s">>, 0)
    /\ \/ PrefixedGroupEnd(typeName, 2) = Len(typeName)
       \/ PrefixedGroupEnd(typeName, PrefixedGroupEnd(typeName, 2)) = Len(typeName)

isValidSingleType(typeName) ==
    \/ prefixedTypeRegex(typeName)
    \/ toLowerCase(typeName) \in validTypes

\* typeName.split(',') with every piece trimmed and tested.
isValidTypeFormat(typeName) ==
    \A k \in 1..Len(Split(typeName, <<",">>)) :
        isValidSingleType(Trim(Split(typeName, <<",">>)[k]))

\* checkBraceBalance reporting an unclosed block also at depth zero.
checkBraceBalance_ZeroReported(tokens, acc) ==
    addIssue(BraceBalanceLoop(tokens, 0, 0, acc).acc, "UNCLOSED_OPTIONAL_BLOCK",
             <<BraceBalanceLoop(tokens, 0, 0, acc).depth>>)

\* checkBraceBalance of the revised checker; its loop is the loop of
\* checkBraceBalanceFast.
checkBraceBalance(tokens, acc) ==
    IF BraceBalanceLoop(tokens, 0, 0, acc).depth > 0
    THEN addIssue(BraceBalanceLoop(tokens, 0, 0, acc).acc, "UNCLOSED_OPTIONAL_BLOCK",
                  <<BraceBalanceLoop(tokens, 0, 0, acc).depth>>)
    ELSE BraceBalanceLoop(tokens, 0, 0, acc).acc

\* checkEmptyParameters of the revised checker: the code of
\* checkEmptyParametersFast.
checkEmptyParametersRev(tokens, acc) == checkEmptyParametersFastFrom(tokens, 0, acc)

\* UnexpectedAtColon without the test for a colon that ends the list.
UnexpectedAtColon_NoEndTest(tokens, i, acc) ==
    LET a1 == IF \/ ~HasToken(tokens, i - 1)
                 \/ /\ TypeAt(tokens, i - 1) # TokenType.PARAMETER_NAME
                    /\ TypeAt(tokens, i - 1) # TokenType.SPREAD
              THEN addIssue(acc, "UNEXPECTED_COLON_NO_PARAM", <<>>) ELSE acc
        a2 == IF TypeAt(tokens, i + 1) = TokenType.COLON
              THEN addIssue(a1, "DOUBLE_COLON", <<>>) ELSE a1
        a3 == IF TypeAt(tokens, i + 1) = TokenType.SEMICOLON
              THEN addIssue(a2, "UNEXPECTED_SEMICOLON_AFTER_COLON", <<>>) ELSE a2
    IN  IF TypeAt(tokens, i + 1) = TokenType.CLOSE_BRACE
        THEN addIssue(a3, "UNEXPECTED_CLOSING_BRACE_AFTER_COLON", <<>>) ELSE a3

\* What checkUnexpectedTokens of the revised checker adds for token i.
UnexpectedAtColon(tokens, i, acc) ==
    LET a1 == IF \/ ~HasToken(tokens, i - 1)
                 \/ /\ TypeAt(tokens, i - 1) # TokenType.PARAMETER_NAME
                    /\ TypeAt(tokens, i - 1) # TokenType.SPREAD
              THEN addIssue(acc, "UNEXPECTED_COLON_NO_PARAM", <<>>) ELSE acc
        a2 == IF TypeAt(tokens, i + 1) = TokenType.COLON
              THEN addIssue(a1, "DOUBLE_COLON", <<>>) ELSE a1
        a3 == IF TypeAt(tokens, i + 1) = TokenType.SEMICOLON
              THEN addIssue(a2, "UNEXPECTED_SEMICOLON_AFTER_COLON", <<>>) ELSE a2
        a4 == IF TypeAt(tokens, i + 1) = TokenType.CLOSE_BRACE
              THEN addIssue(a3, "UNEXPECTED_CLOSING_BRACE_AFTER_COLON", <<>>) ELSE a3
    IN  IF ~HasToken(tokens, i + 1)
        THEN addIssue(a4, "PARAMETER_EMPTY_TYPE_AFTER_COLON", <<>>) ELSE a4

RECURSIVE checkUnexpectedTokensRevFrom(_, _, _)
checkUnexpectedTokensRevFrom(tokens, i, acc) ==
    IF i >= Len(tokens) THEN acc
    ELSE IF TypeAt(tokens, i) = TokenType.COLON
    THEN checkUnexpectedTokensRevFrom(tokens, i + 1, UnexpectedAtColon(tokens, i, acc))
    ELSE checkUnexpectedTokensRevFrom(tokens, i + 1, acc)

checkUnexpectedTokensRev(tokens, acc) == checkUnexpectedTokensRevFrom(tokens, 0, acc)

RECURSIVE checkStructuralIssuesFrom(_, _, _)
checkStructuralIssuesFrom(tokens, i, acc) ==
    IF i >= Len(tokens) THEN acc
    ELSE IF /\ TypeAt(tokens, i) = TokenType.TYPE
            /\ ~isValidTypeFormat(tokens[i + 1].value)
    THEN checkStructuralIssuesFrom(tokens, i + 1,
             addIssue(acc, "INVALID_TYPE_FORMAT", <<tokens[i + 1].value>>))
    ELSE checkStructuralIssuesFrom(tokens, i + 1, acc)

checkStructuralIssues(tokens, acc) == checkStructuralIssuesFrom(tokens, 0, acc)

\* checkMalformations(tokens) of the revised checker: the issues field
\* after the call and whether the call threw.
checkMalformationsRev(tokens) ==
    checkStructuralIssues(tokens,
        checkUnexpectedTokensRev(tokens,
            checkEmptyParametersRev(tokens,
                checkBraceBalance(tokens, NoIssues))))

\* ------------------------------------------------------------------------
\* parameter-checker.ts
\* ------------------------------------------------------------------------
UnknownType == <<"u", "n", "k", "n", "o", "w", "n">>
OperatorType == <<"o", "p", "e", "r", "a", "t", "o", "r">>

\* finishParameterFast taking the flag from optionalDepth alone.
finishParameterFast_DepthOnly(param, parameters, optionalDepth) ==
    IF ~Truthy(param.name) THEN parameters
    ELSE LET finalParam ==
                 [name |-> param.name,
                  type |-> IF Truthy(param.type) THEN param.type ELSE UnknownType,
                  optional |-> optionalDepth > 0,
                  spread |-> param.spread]
         IN  IF /\ Truthy(finalParam.name)
                /\ finalParam.name # <<"}">>
                /\ finalParam.name # <<"{">>
                /\ finalParam.name # <<";">>
             THEN Append(parameters, finalParam)
             ELSE parameters

\* currentParam is a sequence of length 0 (null) or 1.
finishParameterFast(param, parameters, optionalDepth) ==
    IF ~Truthy(param.name) THEN parameters
    ELSE LET finalParam ==
                 [name |-> param.name,
                  type |-> IF Truthy(param.type) THEN param.type ELSE UnknownType,
                  optional |-> param.optional \/ optionalDepth > 0,
                  spread |-> param.spread]
         IN  IF /\ Truthy(finalParam.name)
                /\ finalParam.name # <<"}">>
                /\ finalParam.name # <<"{">>
                /\ finalParam.name # <<";">>
             THEN Append(parameters, finalParam)
             ELSE parameters

\* if (currentParam && currentParam.name) finishParameterFast(...)
FinishCurrent(st) ==
    IF st.currentParam # <<>> /\ Truthy(st.currentParam[1].name)
    THEN finishParameterFast(st.currentParam[1], st.parameters, st.optionalDepth)
    ELSE st.parameters

\* MissingTypeCheck without the test for an opening brace.
MissingTypeCheck_NoOpenBrace(st, tokens, i, name) ==
    IF /\ HasToken(tokens, i + 1)
       /\ TypeAt(tokens, i + 1) # TokenType.COLON
       /\ \/ TypeAt(tokens, i + 1) = TokenType.SEMICOLON
          \/ TypeAt(tokens, i + 1) = TokenType.CLOSE_BRACE
          \/ i = Len(tokens) - 1
    THEN addIssue(st.acc, "PARAMETER_MISSING_TYPE", <<name>>)
    ELSE st.acc

\* The "quick check for missing type" after a name or spread token.
MissingTypeCheck(st, tokens, i, name) ==
    IF /\ HasToken(tokens, i + 1)
       /\ TypeAt(tokens, i + 1) # TokenType.COLON
       /\ \/ TypeAt(tokens, i + 1) = TokenType.SEMICOLON
          \/ TypeAt(tokens, i + 1) = TokenType.OPEN_BRACE
          \/ TypeAt(tokens, i + 1) = TokenType.CLOSE_BRACE
          \/ i = Len(tokens) - 1
    THEN addIssue(st.acc, "PARAMETER_MISSING_TYPE", <<name>>)
    ELSE st.acc

\* One iteration of the for loop of buildParametersFast.
buildStep(st, tokens, i) ==
    LET token == tokens[i + 1]
    IN  CASE token.type = TokenType.OPEN_BRACE ->
               [st EXCEPT !.optionalDepth = @ + 1]
          [] token.type = TokenType.CLOSE_BRACE ->
               [st EXCEPT !.optionalDepth = @ - 1]
          [] token.type = TokenType.PARAMETER_NAME ->
               [st EXCEPT !.parameters = FinishCurrent(st),
                          !.currentParam =
                               <<[name |-> token.value, type |-> UnknownType,
                                  optional |-> st.optionalDepth > 0,
                                  spread |-> FALSE]>>,
                          !.acc = MissingTypeCheck(st, tokens, i, token.value)]
          [] token.type = TokenType.SPREAD ->
               LET paramName ==
                       IF StartsWithAt(token.value, <<".", ".", ".">>, 0)
                       THEN Substring(token.value, 3, Len(token.value))
                       ELSE token.value
               IN  [st EXCEPT !.parameters = FinishCurrent(st),
                              !.currentParam =
                                   <<[name |-> paramName, type |-> UnknownType,
                                      optional |-> st.optionalDepth > 0,
                                      spread |-> TRUE]>>,
                              !.acc = MissingTypeCheck(st, tokens, i, paramName)]
          [] token.type = TokenType.TYPE ->
               IF st.currentParam # <<>> /\ TypeAt(tokens, i - 1) = TokenType.COLON
               THEN [st EXCEPT !.currentParam[1].type = token.value]
               ELSE st
          [] token.type = TokenType.SEMICOLON ->
               IF st.currentParam # <<>> /\ Truthy(st.currentParam[1].name)
               THEN [st EXCEPT !.parameters = FinishCurrent(st),
                               !.currentParam = <<>>]
               ELSE st
          [] token.type \in {TokenType.OPERATOR, TokenType.ESCAPED_ASTERISK} ->
               [st EXCEPT !.parameters =
                    Append(@, [name |-> token.value, type |-> OperatorType,
                               optional |-> st.optionalDepth > 0,
                               spread |-> FALSE])]
          [] OTHER -> st

RECURSIVE buildLoop(_, _, _)
buildLoop(st, tokens, i) ==
    IF i >= Len(tokens) \/ st.acc.threw THEN st
    ELSE buildLoop(buildStep(st, tokens, i), tokens, i + 1)

\* The local variables of buildParametersFast before its loop.
BuildStart ==
    [parameters |-> <<>>, currentParam |-> <<>>, optionalDepth |-> 0,
     acc |-> NoIssues]

\* buildParametersFast without finishing the last parameter after the loop.
buildParametersFast_NoLastFinish(tokens) ==
    buildLoop(BuildStart, tokens, 0)

buildParametersFast(tokens) ==
    LET st == buildLoop(BuildStart, tokens, 0)
    IN  [st EXCEPT !.parameters = FinishCurrent(st)]

\* checkParameters(tokens): parameters and issues of the returned object,
\* and whether the call threw.
checkParameters(tokens) ==
    LET st == buildParametersFast(tokens)
    IN  [parameters |-> st.parameters, issues |-> st.acc.issues,
         threw |-> st.acc.threw]


\* ------------------------------------------------------------------------
\* parser.ts
\* ------------------------------------------------------------------------
\* State of a Parser instance right after construction: its Tokenizer and
\* the issues fields of its MalformationChecker and ParameterChecker.
NewParser == [tokenizer |-> NewTokenizer, mcIssues |-> <<>>, pcIssues |-> <<>>]

BR == <<"<", "b", "r", "/", ">">>

ESCAPED_PLACEHOLDER ==
    <<"_", "_", "_", "E", "S", "C", "A", "P", "E", "D", "_",
      "A", "S", "T", "E", "R", "I", "S", "K", "_", "_", "_">>

\* The character class [^*:;{}() ] of the three emphasis patterns.
InNameClass(c) == c \notin {"*", ":", ";", "{", "}", "(", ")", " "}

RECURSIVE NameClassEnd(_, _)
NameClassEnd(s, p) ==
    IF p < Len(s) /\ InNameClass(CharAt(s, p)) THEN NameClassEnd(s, p + 1) ELSE p

\* s.replace(/\*(<prefix>[^*:;{}() ]+)\*/gu, '$1'): leftmost matches, not
\* overlapping; the class run is greedy and must be followed by '*'.
RECURSIVE StripEmphasisFrom(_, _, _)
StripEmphasisFrom(s, prefix, at) ==
    IF at >= Len(s) THEN <<>>
    ELSE LET runStart == at + 1 + Len(prefix)
             e == NameClassEnd(s, runStart)
         IN  IF /\ CharAt(s, at) = "*"
                /\ StartsWithAt(s, prefix, at + 1)
                /\ e > runStart
                /\ CharAt(s, e) = "*"
             THEN Substring(s, at + 1, e) \o StripEmphasisFrom(s, prefix, e + 1)
             ELSE <<s[at + 1]>> \o StripEmphasisFrom(s, prefix, at + 1)

StripEmphasis(s, prefix) == StripEmphasisFrom(s, prefix, 0)

preprocessParameterString(paramString) ==
    LET s1 == ReplaceAll(paramString, <<"\\", "*">>, ESCAPED_PLACEHOLDER)
        s2 == StripEmphasis(s1, <<".", ".", ".">>)
        s3 == StripEmphasis(s2, <<";", ".", ".", ".">>)
        s4 == StripEmphasis(s3, <<>>)
    IN  ReplaceAll(s4, ESCAPED_PLACEHOLDER, <<"\\", "*">>)

\* ParenScan taking the end of the text for the closing parenthesis.
RECURSIVE ParenScan_EndCloses(_, _, _, _)
ParenScan_EndCloses(s, i, paramStart, parenDepth) ==
    IF i >= Len(s) THEN [paramStart |-> paramStart,
                         paramEnd |-> IF paramStart = -1 THEN -1 ELSE Len(s)]
    ELSE IF CharAt(s, i) = "("
    THEN ParenScan_EndCloses(s, i + 1, IF paramStart = -1 THEN i + 1 ELSE paramStart,
                             parenDepth + 1)
    ELSE IF CharAt(s, i) = ")"
    THEN IF parenDepth - 1 = 0 /\ paramStart # -1
         THEN [paramStart |-> paramStart, paramEnd |-> i]
         ELSE ParenScan_EndCloses(s, i + 1, paramStart, parenDepth - 1)
    ELSE ParenScan_EndCloses(s, i + 1, paramStart, parenDepth)

\* The parenthesis scan of parseSyntax; -1 stands for "not found".
RECURSIVE ParenScan(_, _, _, _)
ParenScan(s, i, paramStart, parenDepth) ==
    IF i >= Len(s) THEN [paramStart |-> paramStart, paramEnd |-> -1]
    ELSE IF CharAt(s, i) = "("
    THEN ParenScan(s, i + 1, IF paramStart = -1 THEN i + 1 ELSE paramStart,
                   parenDepth + 1)
    ELSE IF CharAt(s, i) = ")"
    THEN IF parenDepth - 1 = 0 /\ paramStart # -1
         THEN [paramStart |-> paramStart, paramEnd |-> i]
         ELSE ParenScan(s, i + 1, paramStart, parenDepth - 1)
    ELSE ParenScan(s, i + 1, paramStart, parenDepth)

\* parseReturnType: a sequence of length 0 (undefined) or 1 holding the
\* ParsedReturnType object, whose name and type fields are optional.
parseReturnType(syntaxString, startIndex) ==
    IF startIndex >= Len(syntaxString) THEN <<>>
    ELSE LET remainingString ==
                 Trim(Substring(syntaxString, startIndex, Len(syntaxString)))
             afterArrow == Trim(Substring(remainingString, 2, Len(remainingString)))
             colonIndex == IndexOf(afterArrow, ":")
             returnType ==
                 IF StartsWithAt(remainingString, <<"-", ">">>, 0)
                 THEN IF colonIndex # -1
                      THEN [name |-> Trim(Substring(afterArrow, 0, colonIndex)),
                            type |-> Trim(Substring(afterArrow, colonIndex + 1,
                                                    Len(afterArrow)))]
                      ELSE [name |-> Trim(afterArrow)]
                 ELSE IF StartsWithAt(remainingString, <<":">>, 0)
                 THEN [type |-> Trim(Substring(remainingString, 1,
                                               Len(remainingString)))]
                 ELSE [x \in {} |-> <<>>]
             hasName == "name" \in DOMAIN returnType /\ Truthy(returnType.name)
             hasType == "type" \in DOMAIN returnType /\ Truthy(returnType.type)
         IN  IF ~Truthy(remainingString) THEN <<>>
             ELSE IF ~hasName /\ ~hasType THEN <<>>
             ELSE <<returnType>>

\* attachMalformation without the test of the issue count.
attachMalformation_Always(parsedVariant, allIssues) ==
    ("malformation" :> [isMalformed |-> TRUE, issues |-> allIssues])
        @@ parsedVariant

\* if (allIssues.length > 0) parsedVariant.malformation = {...}
attachMalformation(parsedVariant, allIssues) ==
    IF Len(allIssues) > 0
    THEN ("malformation" :> [isMalformed |-> TRUE, issues |-> allIssues])
             @@ parsedVariant
    ELSE parsedVariant

\* The ParsedVariant object parseSyntax builds once both checkers have
\* returned: variant, parameters, and returnType and malformation when set.
buildParsedVariant(trimmedVariant, parameters, returnType, allIssues) ==
    attachMalformation(
        IF returnType # <<>>
        THEN ("returnType" :> returnType[1])
                 @@ [variant |-> trimmedVariant, parameters |-> parameters]
        ELSE [variant |-> trimmedVariant, parameters |-> parameters],
        allIssues)

\* parseSyntax from the results of its steps 3 and 4 on: mal is what
\* checkMalformations gave and parameterResult what checkParameters gave.
\* An exception thrown by checkMalformations leaves the call before
\* checkParameters runs.
collectVariant(ps, trimmedVariant, paramEnd, tk, mal, parameterResult) ==
    IF mal.threw
    THEN [ps |-> [ps EXCEPT !.tokenizer = tk, !.mcIssues = mal.issues],
          threw |-> TRUE, variant |-> <<>>]
    ELSE [ps |-> [tokenizer |-> tk, mcIssues |-> mal.issues,
                  pcIssues |-> parameterResult.issues],
          threw |-> parameterResult.threw,
          variant |->
             buildParsedVariant(trimmedVariant, parameterResult.parameters,
                                parseReturnType(trimmedVariant, paramEnd + 1),
                                mal.issues \o parameterResult.issues)]

\* Steps 3 and 4 of parseSyntax on the token array tk.tokens of step 2.
checkVariant(ps, trimmedVariant, paramEnd, tk) ==
    collectVariant(ps, trimmedVariant, paramEnd, tk,
                   checkMalformations(tk.tokens), checkParameters(tk.tokens))

\* parseSyntax after its parenthesis scan, which gave scan.
scannedVariant(ps, trimmedVariant, scan) ==
    LET paramString ==
            Trim(Substring(trimmedVariant, scan.paramStart, scan.paramEnd))
    IN  IF scan.paramStart = -1 \/ scan.paramEnd = -1
        THEN [ps |-> ps, threw |-> FALSE,
              variant |->
                 [variant |-> trimmedVariant, parameters |-> <<>>,
                  malformation |->
                     [isMalformed |-> TRUE,
                      issues |->
                         IF scan.paramStart = -1
                         THEN <<[message |-> <<"Missing opening parenthesis">>,
                                 level |-> WarningLevel.LEVEL_1]>>
                         ELSE <<[message |-> <<"Missing closing parenthesis">>,
                                 level |-> WarningLevel.LEVEL_1]>>]]]
        ELSE IF ~Truthy(paramString)
        THEN [ps |-> ps, threw |-> FALSE,
              variant |-> [variant |-> trimmedVariant, parameters |-> <<>>]]
        ELSE checkVariant(ps, trimmedVariant, scan.paramEnd,
                          tokenize(ps.tokenizer,
                                   preprocessParameterString(paramString)))

\* The body of the for loop of parseSyntax for one non-empty trimmed
\* segment, on the Parser instance in state ps: the instance afterwards,
\* the ParsedVariant pushed, and whether an exception left the call.
parseVariant(ps, trimmedVariant) ==
    scannedVariant(ps, trimmedVariant, ParenScan(trimmedVariant, 0, -1, 0))

RECURSIVE parseSegments(_, _, _)
\* allVariants.push(parsedVariant) and the iterations that follow, unless
\* the iteration that gave r threw.
pushVariant(r, segments, allVariants) ==
    IF r.threw
    THEN [ps |-> r.ps, threw |-> TRUE, ret |-> <<>>]
    ELSE parseSegments(r.ps, segments, Append(allVariants, r.variant))

\* The for loop of parseSyntax over the segments between <br/> marks.
parseSegments(ps, segments, allVariants) ==
    IF segments = <<>> THEN [ps |-> ps, threw |-> FALSE, ret |-> allVariants]
    ELSE IF ~Truthy(Trim(Head(segments)))
    THEN parseSegments(ps, Tail(segments), allVariants)
    ELSE pushVariant(parseVariant(ps, Trim(Head(segments))), Tail(segments),
                     allVariants)

\* parseSyntax(syntax) on the Parser instance in state ps.
parseSyntax(ps, syntax) ==
    IF ~Truthy(syntax) THEN [ps |-> ps, threw |-> FALSE, ret |-> <<>>]
    ELSE parseSegments(ps, Split(syntax, BR), <<>>)

\* parseParameters(paramString) on the Parser instance in state ps.
parseParameters(ps, paramString) ==
    LET tk == tokenize(ps.tokenizer, preprocessParameterString(paramString))
        result == checkParameters(tk.tokens)
    IN  [ps |-> [ps EXCEPT !.tokenizer = tk, !.pcIssues = result.issues],
         threw |-> result.threw, ret |-> result.parameters]


\* ------------------------------------------------------------------------
\* checker.ts
\* ------------------------------------------------------------------------
\* The elements of an array or the members of a Set built from it.
Elements(seq) == {seq[k] : k \in 1..Len(seq)}

\* [x.trim() for x of seq]
MapTrim(seq) == [k \in 1..Len(seq) |-> Trim(seq[k])]

\* isTypeValid accepting as soon as one declared type is among the actual
\* types.
isTypeValid_SomeDeclared(parsedTypes, actualTypes) ==
    \E item \in Elements(MapTrim(Split(toLowerCase(parsedTypes), <<",">>))) :
        item \in {Trim(toLowerCase(t)) : t \in Elements(actualTypes)}

\* isTypeValid(parsedTypes: string, actualTypes: string[]): set1 holds the
\* lower-cased, trimmed pieces of parsedTypes, set2 the lower-cased,
\* trimmed actual types; true unless an item of set1 is not in set2.
isTypeValid(parsedTypes, actualTypes) ==
    \A item \in Elements(MapTrim(Split(toLowerCase(parsedTypes), <<",">>))) :
        item \in {Trim(toLowerCase(t)) : t \in Elements(actualTypes)}

\* Where a match of /\s+or\s+/ that starts at p ends, -1 when none does.
RECURSIVE WhiteSpaceEnd(_, _)
WhiteSpaceEnd(s, p) ==
    IF p < Len(s) /\ CharAt(s, p) \in WhiteSpace THEN WhiteSpaceEnd(s, p + 1) ELSE p

OrSeparatorEnd(s, p) ==
    IF /\ WhiteSpaceEnd(s, p) > p
       /\ StartsWithAt(s, <<"o", "r">>, WhiteSpaceEnd(s, p))
       /\ WhiteSpaceEnd(s, WhiteSpaceEnd(s, p) + 2) > WhiteSpaceEnd(s, p) + 2
    THEN WhiteSpaceEnd(s, WhiteSpaceEnd(s, p) + 2)
    ELSE -1

\* s.split(/[,\/]|\s+or\s+/)
RECURSIVE SplitTypeListFrom(_, _, _)
SplitTypeListFrom(s, at, start) ==
    IF at >= Len(s) THEN <<Substring(s, start, Len(s))>>
    ELSE IF CharAt(s, at) \in {",", "/"}
    THEN <<Substring(s, start, at)>> \o SplitTypeListFrom(s, at + 1, at + 1)
    ELSE IF OrSeparatorEnd(s, at) # -1
    THEN <<Substring(s, start, at)>>
             \o SplitTypeListFrom(s, OrSeparatorEnd(s, at), OrSeparatorEnd(s, at))
    ELSE SplitTypeListFrom(s, at + 1, start)

\* actualTypeList of the string form of isTypeValid.
actualTypeList(actualTypeLower) ==
    SelectSeq(MapTrim(SplitTypeListFrom(actualTypeLower, 0, 0)),
              LAMBDA t : Len(t) > 0)

REAL == <<"r", "e", "a", "l">>
NUMBER == <<"n", "u", "m", "b", "e", "r">>
ANY == <<"a", "n", "y">>

\* typeEquivalences[key]; undefined for a key that is not in the table.
typeEquivalences(key) ==
    IF key = REAL THEN NUMBER ELSE IF key = NUMBER THEN REAL ELSE <<Undefined>>

\* isTypeValid(parsedType: string, actualType: string), on the two
\* lower-cased and trimmed arguments.
isTypeValidLower(parsedTypeLower, actualTypeLower) ==
    \/ parsedTypeLower = ANY
    \/ actualTypeLower = parsedTypeLower
    \/ typeEquivalences(parsedTypeLower) = actualTypeLower
    \/ parsedTypeLower \in Elements(actualTypeList(actualTypeLower))
    \/ typeEquivalences(parsedTypeLower) \in Elements(actualTypeList(actualTypeLower))

isTypeValidString(parsedType, actualType) ==
    isTypeValidLower(Trim(toLowerCase(parsedType)), Trim(toLowerCase(actualType)))

\* p.spread === -1: strict equality, false for the booleans the parameter
\* checker stores in spread.
IsMinusOne(value) == IF value \in BOOLEAN THEN FALSE ELSE value = -1

\* [x.name.toLowerCase() for x of parameters]
LowerCaseNames(parameters) ==
    [k \in 1..Len(parameters) |-> toLowerCase(parameters[k].name)]

\* The extraParams filter shared by both forms of validateVariantParameters.
extraParamsOf(parsedParamNames, names) ==
    SelectSeq(parsedParamNames,
              LAMBDA parsed : parsed \notin Elements(names) /\ parsed # <<"*">>)

\* validateVariantParameters(variant, params, actualParamNames): the
\* extraParams field of its result, from variant.parameters and
\* actualParamNames.
validateVariantParameters(parameters, names) ==
    [extraParams |->
        extraParamsOf(
            LowerCaseNames(SelectSeq(parameters, LAMBDA p : IsMinusOne(p.spread))),
            [k \in 1..Len(names) |-> toLowerCase(names[k])])]

\* The earlier form of validateVariantParameters, which takes the actual
\* names as they are.
validateVariantParametersEarlier(parameters, names) ==
    [extraParams |->
        extraParamsOf(
            LowerCaseNames(SelectSeq(parameters, LAMBDA p : ~p.spread)),
            names)]

\* ------------------------------------------------------------------------
\* Inputs
\* ------------------------------------------------------------------------
\* The pieces parameter strings are assembled from.
BodyFrags ==
    { <<"a">>, <<":">>, <<";">>, <<"{">>, <<"}">>, <<"*">>, <<"\\", "*">>,
      <<".", ".", ".">>, <<"/">>, <<" ">>, <<"(">>, <<")">> }

FragSeqs(frags, n) == UNION {[1..k -> frags] : k \in 0..n}

Bodies == {Flatten(f) : f \in FragSeqs(BodyFrags, MaxFrags)}

\* The ways a parameter string is placed in a syntax string.
Wrappers == {"bare", "call", "open", "ret", "then", "after"}

Wrap(w, b) ==
    CASE w = "bare"  -> b
      [] w = "call"  -> <<"f", "(">> \o b \o <<")">>
      [] w = "open"  -> <<"f", "(">> \o b
      [] w = "ret"   -> <<"f", "(">> \o b \o <<")", "-", ">", "r", ":", "T">>
      [] w = "then"  -> <<"f", "(">> \o b \o <<")">> \o BR
                            \o <<"g", "(", "a", ":", "/", ")">>
      [] w = "after" -> <<"g", "(", "a">> \o BR \o <<"f", "(">> \o b \o <<")">>

\* ------------------------------------------------------------------------
\* State
\* ------------------------------------------------------------------------
VARIABLES
    body,       \* the parameter string drawn for this run
    wrapper,    \* how parseSyntax's argument is built from body
    parser,     \* the Parser instance (tokenizer and checker fields)
    op,         \* the last call made
    arg,        \* its argument
    outcome,    \* "none", "returned" or "threw"
    ret,        \* the value it returned
    tokens,     \* the token array the caller got from tokenize
    called,     \* the checkers already run on tokens
    held,       \* the result of the call before the last one
    heldArg,    \* and its argument
    shared,     \* two callers use one Parser instance (or one each)
    inst,       \* the Parser instances the two callers use
    call,       \* each caller's position in parseSyntax and its locals
    overlapped, \* a caller has taken a step while the other was in a call
    declaredTypes, \* the types a variant declares for a parameter
    documentedTypes, \* the types the documentation lists for it
    typeCall,   \* the isTypeValid call made on them and its arguments
    valid,      \* what that call returned
    steps,      \* iterations the loop of the running tokenize call has made
    checkedVariant, \* the parameters of a variant given to the validator
    actualParamNames, \* the documented parameter names given with it
    validation  \* the validateVariantParameters call made and its result

seqVars == <<body, wrapper, parser, op, arg, outcome, ret, tokens, called, held,
             heldArg>>

concVars == <<shared, inst, call, overlapped>>

typeVars == <<declaredTypes, documentedTypes, typeCall, valid>>

scanVars == <<steps>>

validateVars == <<checkedVariant, actualParamNames, validation>>

vars == <<seqVars, concVars, typeVars, scanVars, validateVars>>

Callers == {1, 2}

\* State of a Parser instance that callers may share: its Tokenizer, the
\* issues field of its MalformationChecker, and every array the issues
\* field of its ParameterChecker has referred to, the current one last.
NewInstance == [tokenizer |-> NewTokenizer, mcIssues |-> <<>>, pcArrays |-> << <<>> >>]

\* A caller that has not called yet.
IdleCall ==
    [pc |-> "idle", input |-> <<>>, tokens |-> <<>>, malIssues |-> <<>>,
     parameters |-> <<>>, currentParam |-> <<>>, optionalDepth |-> 0, i |-> 0,
     issuesRef |-> 0, outcome |-> "none", ret |-> <<>>]

NoCallers ==
    /\ shared = FALSE
    /\ inst = [k \in Callers |-> NewInstance]
    /\ call = [c \in Callers |-> IdleCall]
    /\ overlapped = FALSE

\* No isTypeValid call has been made.
NoCall ==
    [form |-> "none", parsedTypes |-> <<>>, actualType |-> <<>>, actualTypes |-> <<>>]

NoTypes ==
    /\ declaredTypes = <<>>
    /\ documentedTypes = <<>>
    /\ typeCall = NoCall
    /\ valid = FALSE

\* validateVariantParameters has not been called.
NoValidation == [form |-> "none", extraParams |-> <<>>]

NotValidated ==
    /\ checkedVariant = <<>>
    /\ actualParamNames = <<>>
    /\ validation = NoValidation

Outcome(r) == IF r.threw THEN "threw" ELSE "returned"

Init ==
    /\ body \in Bodies
    /\ wrapper \in Wrappers
    /\ parser = NewParser
    /\ op = "none"
    /\ arg = <<>>
    /\ outcome = "none"
    /\ ret = <<>>
    /\ tokens = <<>>
    /\ called = {}
    /\ held = <<>>
    /\ heldArg = <<>>
    /\ NoCallers
    /\ NoTypes
    /\ steps = 0
    /\ NotValidated

\* parser.parseSyntax(Wrap(wrapper, body))
ParseSyntax ==
    /\ op = "none"
    /\ LET r == parseSyntax(parser, Wrap(wrapper, body))
       IN  /\ parser' = r.ps
           /\ outcome' = Outcome(r)
           /\ ret' = r.ret
    /\ op' = "parseSyntax"
    /\ arg' = Wrap(wrapper, body)
    /\ UNCHANGED <<body, wrapper, tokens, called, held, heldArg, concVars, typeVars, scanVars, validateVars>>

\* parser.parseParameters(body)
ParseParameters ==
    /\ op = "none"
    /\ wrapper = "bare"
    /\ LET r == parseParameters(parser, body)
       IN  /\ parser' = r.ps
           /\ outcome' = Outcome(r)
           /\ ret' = r.ret
    /\ op' = "parseParameters"
    /\ arg' = body
    /\ UNCHANGED <<body, wrapper, tokens, called, held, heldArg, concVars, typeVars, scanVars, validateVars>>

\* tokenizer.tokenize(body)
Tokenize ==
    /\ op = "none"
    /\ wrapper = "bare"
    /\ LET tk == tokenize(parser.tokenizer, body)
       IN  /\ parser' = [parser EXCEPT !.tokenizer = tk]
           /\ ret' = tk.tokens
           /\ tokens' = tk.tokens
    /\ outcome' = "returned"
    /\ op' = "tokenize"
    /\ arg' = body
    /\ UNCHANGED <<body, wrapper, called, held, heldArg, concVars, typeVars, scanVars, validateVars>>

\* malformationChecker.checkMalformations(tokens)
CheckMalformations ==
    /\ op \in {"tokenize", "checkParameters"}
    /\ "checkMalformations" \notin called
    /\ LET r == checkMalformations(tokens)
       IN  /\ parser' = [parser EXCEPT !.mcIssues = r.issues]
           /\ outcome' = Outcome(r)
           /\ ret' = IF r.threw THEN <<>> ELSE r.issues
    /\ op' = "checkMalformations"
    /\ arg' = tokens
    /\ called' = called \cup {"checkMalformations"}
    /\ UNCHANGED <<body, wrapper, tokens, held, heldArg, concVars, typeVars, scanVars, validateVars>>

\* CheckParameters with the parameter checker pushing its issues onto the
\* malformation checker's list as well.
CheckParameters_SharedIssues ==
    /\ op \in {"tokenize", "checkMalformations"}
    /\ "checkParameters" \notin called
    /\ LET r == checkParameters(tokens)
       IN  /\ parser' = [parser EXCEPT !.pcIssues = r.issues,
                                       !.mcIssues = @ \o r.issues]
           /\ outcome' = Outcome(r)
           /\ ret' = IF r.threw THEN <<>>
                     ELSE [parameters |-> r.parameters, issues |-> r.issues]
    /\ op' = "checkParameters"
    /\ arg' = tokens
    /\ called' = called \cup {"checkParameters"}
    /\ UNCHANGED <<body, wrapper, tokens, held, heldArg, concVars, typeVars, scanVars, validateVars>>

\* parameterChecker.checkParameters(tokens)
CheckParameters ==
    /\ op \in {"tokenize", "checkMalformations"}
    /\ "checkParameters" \notin called
    /\ LET r == checkParameters(tokens)
       IN  /\ parser' = [parser EXCEPT !.pcIssues = r.issues]
           /\ outcome' = Outcome(r)
           /\ ret' = IF r.threw THEN <<>>
                     ELSE [parameters |-> r.parameters, issues |-> r.issues]
    /\ op' = "checkParameters"
    /\ arg' = tokens
    /\ called' = called \cup {"checkParameters"}
    /\ UNCHANGED <<body, wrapper, tokens, held, heldArg, concVars, typeVars, scanVars, validateVars>>

\* checkMalformations(tokens) of a revised MalformationChecker
CheckMalformationsRev ==
    /\ op = "tokenize"
    /\ LET r == checkMalformationsRev(tokens)
       IN  /\ outcome' = Outcome(r)
           /\ ret' = IF r.threw THEN <<>> ELSE r.issues
    /\ op' = "checkMalformationsRev"
    /\ arg' = tokens
    /\ called' = called \cup {"checkMalformationsRev"}
    /\ UNCHANGED <<body, wrapper, parser, tokens, held, heldArg, concVars, typeVars, scanVars, validateVars>>

Next ==
    \/ ParseSyntax
    \/ ParseParameters
    \/ Tokenize
    \/ CheckMalformations
    \/ CheckParameters
    \/ CheckMalformationsRev

Spec == Init /\ [][Next]_vars


\* ------------------------------------------------------------------------
\* Parameter building on longer token lists
\* ------------------------------------------------------------------------
\* The longest parameter string drawn, in pieces.
MaxBuildFrags == 4

\* The characters buildParametersFast distinguishes: names and types,
\* colons, semicolons, braces and the spread prefix.
BuildFrags == { <<"a">>, <<":">>, <<";">>, <<"{">>, <<"}">>, <<".", ".", ".">> }

BuildBodies == {Flatten(f) : f \in FragSeqs(BuildFrags, MaxBuildFrags)}

InitBuild ==
    /\ body \in BuildBodies
    /\ wrapper = "bare"
    /\ parser = NewParser
    /\ op = "none"
    /\ arg = <<>>
    /\ outcome = "none"
    /\ ret = <<>>
    /\ tokens = <<>>
    /\ called = {}
    /\ held = <<>>
    /\ heldArg = <<>>
    /\ NoCallers
    /\ NoTypes
    /\ steps = 0
    /\ NotValidated

NextBuild ==
    \/ Tokenize
    \/ CheckParameters

SpecBuild == InitBuild /\ [][NextBuild]_vars

\* ------------------------------------------------------------------------
\* Repeated calls on one Parser instance
\* ------------------------------------------------------------------------
RepFrags == { <<"a">>, <<":">>, <<"/">> }

\* The parameter strings of the repeated parseSyntax calls.
RepBodies == {Flatten(f) : f \in FragSeqs(RepFrags, MaxRepFrags)}

\* The arguments of the parseParameters calls made in between.
RepParamStrings == { <<>>, <<"a">>, <<"a", ":">>, <<";">> }

InitRepeat ==
    /\ body = <<>>
    /\ wrapper = "call"
    /\ parser = NewParser
    /\ op = "none"
    /\ arg = <<>>
    /\ outcome = "none"
    /\ ret = <<>>
    /\ tokens = <<>>
    /\ called = {}
    /\ held = <<>>
    /\ heldArg = <<>>
    /\ NoCallers
    /\ NoTypes
    /\ steps = 0
    /\ NotValidated

\* The caller keeps what the call before gave it.
HoldLast ==
    /\ held' = IF op = "none" THEN <<>>
               ELSE <<[op |-> op, outcome |-> outcome, ret |-> ret]>>
    /\ heldArg' = arg

\* parser.parseSyntax("f(" + b + ")") after the calls made so far
RepeatParseSyntax ==
    \E b \in RepBodies :
        /\ LET r == parseSyntax(parser, Wrap("call", b))
           IN  /\ parser' = r.ps
               /\ outcome' = Outcome(r)
               /\ ret' = r.ret
        /\ op' = "parseSyntax"
        /\ body' = b
        /\ wrapper' = "call"
        /\ arg' = Wrap("call", b)
        /\ HoldLast
        /\ UNCHANGED <<tokens, called, concVars, typeVars, scanVars, validateVars>>

\* parser.parseParameters(s) after the calls made so far
RepeatParseParameters ==
    \E s \in RepParamStrings :
        /\ LET r == parseParameters(parser, s)
           IN  /\ parser' = r.ps
               /\ outcome' = Outcome(r)
               /\ ret' = r.ret
        /\ op' = "parseParameters"
        /\ body' = s
        /\ wrapper' = "bare"
        /\ arg' = s
        /\ HoldLast
        /\ UNCHANGED <<tokens, called, concVars, typeVars, scanVars, validateVars>>

NextRepeat ==
    \/ RepeatParseSyntax
    \/ RepeatParseParameters

SpecRepeat == InitRepeat /\ [][NextRepeat]_vars

\* ------------------------------------------------------------------------
\* Two callers whose parseSyntax calls interleave
\* ------------------------------------------------------------------------
ConcFrags == { <<"a">>, <<":">>, <<";">>, <<"/">> }

\* The parameter strings of the first caller and of the second.
ConcBodies == {Flatten(f) : f \in FragSeqs(ConcFrags, MaxConcFrags)}
OtherBodies == { <<"a", ";">>, <<":", "a">>, <<"a", ":", "/">> }

\* The instance caller c calls, and the other caller.
InstanceOf(c) == IF shared THEN 1 ELSE c
Other(c) == 3 - c
InCall(c) == call[c].pc \notin {"idle", "done"}

\* Both callers are about to call parseSyntax with a one-variant syntax
\* string, on one Parser instance or on one each.
InitConc ==
    /\ body = <<>>
    /\ wrapper = "call"
    /\ parser = NewParser
    /\ op = "none"
    /\ arg = <<>>
    /\ outcome = "none"
    /\ ret = <<>>
    /\ tokens = <<>>
    /\ called = {}
    /\ held = <<>>
    /\ heldArg = <<>>
    /\ shared \in BOOLEAN
    /\ inst = [k \in Callers |-> NewInstance]
    /\ \E b1 \in ConcBodies, b2 \in OtherBodies :
          call = [c \in Callers |->
                    [IdleCall EXCEPT !.input =
                        Wrap("call", IF c = 1 THEN b1 ELSE b2)]]
    /\ overlapped = FALSE
    /\ NoTypes
    /\ steps = 0
    /\ NotValidated

\* Caller c takes a step that leaves its locals as cl and its instance as
\* me.
Step(c, cl, me) ==
    /\ call' = [call EXCEPT ![c] = cl]
    /\ inst' = [inst EXCEPT ![InstanceOf(c)] = me]
    /\ overlapped' = (overlapped \/ InCall(Other(c)))
    /\ UNCHANGED <<shared, seqVars, typeVars, scanVars, validateVars>>

Threw(cl) == [cl EXCEPT !.pc = "done", !.outcome = "threw"]

ParamStringOf(input) ==
    LET scan == ParenScan(input, 0, -1, 0)
    IN  Trim(Substring(input, scan.paramStart, scan.paramEnd))

ReturnsBeforeTokenizing(input) ==
    LET scan == ParenScan(input, 0, -1, 0)
    IN  scan.paramStart = -1 \/ scan.paramEnd = -1 \/ ~Truthy(ParamStringOf(input))

\* parseSyntax from its entry to the head of tokenize, whose assignments
\* reset the tokenizer's fields; or to its return, on the paths that
\* return before tokenizing and leave the instance alone.
Begin(c) ==
    /\ call[c].pc = "idle"
    /\ IF ReturnsBeforeTokenizing(call[c].input)
       THEN Step(c,
                 [call[c] EXCEPT
                     !.pc = "done", !.outcome = "returned",
                     !.ret = <<scannedVariant(NewParser, call[c].input,
                                    ParenScan(call[c].input, 0, -1, 0)).variant>>],
                 inst[InstanceOf(c)])
       ELSE Step(c, [call[c] EXCEPT !.pc = "scan"],
                 [inst[InstanceOf(c)] EXCEPT
                     !.tokenizer =
                         tokenizeReset(@, preprocessParameterString(
                                              ParamStringOf(call[c].input)))])

\* One iteration of the while loop of tokenize.
Scan(c) ==
    /\ call[c].pc = "scan"
    /\ inst[InstanceOf(c)].tokenizer.position
          < Len(inst[InstanceOf(c)].tokenizer.input)
    /\ Step(c, call[c],
            [inst[InstanceOf(c)] EXCEPT !.tokenizer = scanToken(@)])

\* return this.tokens
TokenizeReturn(c) ==
    /\ call[c].pc = "scan"
    /\ ~(inst[InstanceOf(c)].tokenizer.position
            < Len(inst[InstanceOf(c)].tokenizer.input))
    /\ Step(c, [call[c] EXCEPT !.pc = "mal",
                               !.tokens = inst[InstanceOf(c)].tokenizer.tokens],
            inst[InstanceOf(c)])

\* Step 3 of parseSyntax, one call of checkMalformations taken whole.
CheckMal(c) ==
    /\ call[c].pc = "mal"
    /\ LET r == checkMalformations(call[c].tokens)
       IN  Step(c,
                IF r.threw THEN Threw(call[c])
                ELSE [call[c] EXCEPT !.pc = "params", !.malIssues = r.issues],
                [inst[InstanceOf(c)] EXCEPT !.mcIssues = r.issues])

\* checkParametersReset leaving this.issues the array it was.
checkParametersReset_KeepsArray(pcArrays) == pcArrays

\* this.issues = [] at the head of checkParameters: the field refers to a
\* new empty array; arrays handed out before stay as they are.
checkParametersReset(pcArrays) == Append(pcArrays, <<>>)

\* The locals of buildParametersFast of caller c together with the issues
\* array this.issues refers to now.
BuildState(c) ==
    [parameters |-> call[c].parameters, currentParam |-> call[c].currentParam,
     optionalDepth |-> call[c].optionalDepth,
     acc |-> [issues |-> inst[InstanceOf(c)].pcArrays[
                             Len(inst[InstanceOf(c)].pcArrays)],
              threw |-> FALSE]]

\* Step 4 of parseSyntax: entry of checkParameters and of
\* buildParametersFast.
ParamReset(c) ==
    /\ call[c].pc = "params"
    /\ Step(c,
            [call[c] EXCEPT !.pc = "loop",
                            !.parameters = BuildStart.parameters,
                            !.currentParam = BuildStart.currentParam,
                            !.optionalDepth = BuildStart.optionalDepth,
                            !.i = 0],
            [inst[InstanceOf(c)] EXCEPT !.pcArrays = checkParametersReset(@)])

\* The locals of caller c after an iteration of buildParametersFast that
\* left the build state st.
AfterBuildStep(cl, st) ==
    IF st.acc.threw THEN Threw(cl)
    ELSE [cl EXCEPT !.parameters = st.parameters,
                    !.currentParam = st.currentParam,
                    !.optionalDepth = st.optionalDepth,
                    !.i = @ + 1]

\* The instance after that iteration: what it pushed is in the array
\* this.issues refers to.
StoreIssues(me, st) ==
    [me EXCEPT !.pcArrays[Len(me.pcArrays)] = st.acc.issues]

\* One iteration of the for loop of buildParametersFast.
ParamStep(c) ==
    /\ call[c].pc = "loop"
    /\ call[c].i < Len(call[c].tokens)
    /\ \E st \in {buildStep(BuildState(c), call[c].tokens, call[c].i)} :
          Step(c, AfterBuildStep(call[c], st),
               StoreIssues(inst[InstanceOf(c)], st))

\* The end of buildParametersFast and the return of checkParameters, whose
\* result refers to the array this.issues refers to at that moment.
ParamReturn(c) ==
    /\ call[c].pc = "loop"
    /\ ~(call[c].i < Len(call[c].tokens))
    /\ Step(c,
            [call[c] EXCEPT !.pc = "finish",
                            !.parameters = FinishCurrent(BuildState(c)),
                            !.issuesRef = Len(inst[InstanceOf(c)].pcArrays)],
            inst[InstanceOf(c)])

\* The rest of parseSyntax: allIssues copies both issue arrays, the variant
\* is built and returned.
Finish(c) ==
    /\ call[c].pc = "finish"
    /\ Step(c,
            [call[c] EXCEPT
                !.pc = "done", !.outcome = "returned",
                !.ret = <<buildParsedVariant(
                             call[c].input, call[c].parameters,
                             parseReturnType(call[c].input,
                                 ParenScan(call[c].input, 0, -1, 0).paramEnd + 1),
                             call[c].malIssues
                                 \o inst[InstanceOf(c)].pcArrays[call[c].issuesRef])>>],
            inst[InstanceOf(c)])

NextConc ==
    \E c \in Callers :
        \/ Begin(c)
        \/ Scan(c)
        \/ TokenizeReturn(c)
        \/ CheckMal(c)
        \/ ParamReset(c)
        \/ ParamStep(c)
        \/ ParamReturn(c)
        \/ Finish(c)

SpecConc == InitConc /\ [][NextConc]_vars

\* ------------------------------------------------------------------------
\* One tokenize call, iteration by iteration
\* ------------------------------------------------------------------------
\* The longest input drawn, in pieces.
MaxScanFrags == 3

\* Characters of every branch of scanToken: identifier characters, token
\* characters, blanks, the halves of the two-character tokens, and symbols
\* that no branch recognizes.
ScanFrags ==
    { <<"a">>, <<":">>, <<" ">>, <<"\\">>, <<"*">>, <<".">>, <<",">>,
      <<"-">>, <<">">> }

ScanInputs == {Flatten(f) : f \in FragSeqs(ScanFrags, MaxScanFrags)}

InitScan ==
    /\ body \in ScanInputs
    /\ wrapper = "bare"
    /\ parser = NewParser
    /\ op = "none"
    /\ arg = <<>>
    /\ outcome = "none"
    /\ ret = <<>>
    /\ tokens = <<>>
    /\ called = {}
    /\ held = <<>>
    /\ heldArg = <<>>
    /\ NoCallers
    /\ NoTypes
    /\ steps = 0
    /\ NotValidated

\* tokenize(body) up to the first test of its loop.
ScanBegin ==
    /\ op = "none"
    /\ parser' = [parser EXCEPT !.tokenizer = tokenizeReset(@, body)]
    /\ op' = "scanning"
    /\ arg' = body
    /\ steps' = 0
    /\ UNCHANGED <<body, wrapper, outcome, ret, tokens, called, held, heldArg,
                   concVars, typeVars, validateVars>>

\* One iteration of the loop: this.scanToken(). The count of iterations
\* is followed one past the input length and no further.
ScanToken ==
    /\ op = "scanning"
    /\ parser.tokenizer.position < Len(parser.tokenizer.input)
    /\ steps <= Len(parser.tokenizer.input)
    /\ parser' = [parser EXCEPT !.tokenizer = scanToken(@)]
    /\ steps' = steps + 1
    /\ UNCHANGED <<body, wrapper, op, arg, outcome, ret, tokens, called, held,
                   heldArg, concVars, typeVars, validateVars>>

\* return this.tokens
ScanReturn ==
    /\ op = "scanning"
    /\ ~(parser.tokenizer.position < Len(parser.tokenizer.input))
    /\ op' = "tokenize"
    /\ outcome' = "returned"
    /\ ret' = parser.tokenizer.tokens
    /\ tokens' = parser.tokenizer.tokens
    /\ UNCHANGED <<body, wrapper, parser, arg, called, held, heldArg, concVars,
                   typeVars, scanVars, validateVars>>

NextScan ==
    \/ ScanBegin
    \/ ScanToken
    \/ ScanReturn

SpecScan == InitScan /\ [][NextScan]_vars

\* The call runs on: JavaScript executes the synchronous loop to its end.
SpecScanLive == SpecScan /\ WF_vars(NextScan)

\* ------------------------------------------------------------------------
\* validateVariantParameters on drawn parameter lists
\* ------------------------------------------------------------------------
\* The longest parameter list and the longest list of actual names drawn.
MaxParams == 2

ParamNames == { <<"a">>, <<"A">>, <<"b">>, <<"*">> }

\* Parameters as checkParameters builds them.
ParsedParams ==
    [name : ParamNames, type : {UnknownType}, optional : {FALSE},
     spread : BOOLEAN]

ParamLists == UNION {[1..n -> ParsedParams] : n \in 0..MaxParams}

ActualNames == { <<"a">>, <<"b">>, <<"B">> }

ActualNameLists == UNION {[1..n -> ActualNames] : n \in 0..MaxParams}

InitValidate ==
    /\ body = <<>>
    /\ wrapper = "call"
    /\ parser = NewParser
    /\ op = "none"
    /\ arg = <<>>
    /\ outcome = "none"
    /\ ret = <<>>
    /\ tokens = <<>>
    /\ called = {}
    /\ held = <<>>
    /\ heldArg = <<>>
    /\ NoCallers
    /\ NoTypes
    /\ steps = 0
    /\ checkedVariant \in ParamLists
    /\ actualParamNames \in ActualNameLists
    /\ validation = NoValidation

\* checker.validateVariantParameters(variant, params, actualParamNames)
ValidateVariantParameters ==
    /\ validation.form = "none"
    /\ validation' =
          [form |-> "current",
           extraParams |->
               validateVariantParameters(checkedVariant,
                                         actualParamNames).extraParams]
    /\ UNCHANGED <<seqVars, concVars, typeVars, scanVars, checkedVariant,
                   actualParamNames>>

\* The same call on the earlier form of the method.
ValidateVariantParametersEarlier ==
    /\ validation.form = "none"
    /\ validation' =
          [form |-> "earlier",
           extraParams |->
               validateVariantParametersEarlier(checkedVariant,
                                                actualParamNames).extraParams]
    /\ UNCHANGED <<seqVars, concVars, typeVars, scanVars, checkedVariant,
                   actualParamNames>>

NextValidate ==
    \/ ValidateVariantParameters
    \/ ValidateVariantParametersEarlier

SpecValidate == InitValidate /\ [][NextValidate]_vars

\* ------------------------------------------------------------------------
\* isTypeValid on drawn type lists
\* ------------------------------------------------------------------------
\* The longest type list drawn.
MaxTypes == 2

\* Type names as variants and documentation spell them.
TypeWords ==
    { <<"T", "e", "x", "t">>, <<" ", "t", "e", "x", "t", " ">>,
      <<"R", "e", "a", "l">>, <<"n", "u", "m", "b", "e", "r">>,
      <<"A", "n", "y">> }

TypeLists == UNION {[1..n -> TypeWords] : n \in 0..MaxTypes}

\* list.join(sep)
RECURSIVE Join(_, _)
Join(list, sep) ==
    IF Len(list) = 0 THEN <<>>
    ELSE IF Len(list) = 1 THEN list[1]
    ELSE list[1] \o sep \o Join(Tail(list), sep)

\* How documentation separates the types of a parameter in one string.
TypeSeparators == { <<",">>, <<"/">>, <<" ", "o", "r", " ">> }

InitTypes ==
    /\ body = <<>>
    /\ wrapper = "call"
    /\ parser = NewParser
    /\ op = "none"
    /\ arg = <<>>
    /\ outcome = "none"
    /\ ret = <<>>
    /\ tokens = <<>>
    /\ called = {}
    /\ held = <<>>
    /\ heldArg = <<>>
    /\ NoCallers
    /\ declaredTypes \in TypeLists
    /\ documentedTypes \in TypeLists
    /\ typeCall = NoCall
    /\ valid = FALSE
    /\ steps = 0
    /\ NotValidated

\* checker.isTypeValid(declaredTypes.join(','), documentedTypes)
IsTypeValid ==
    /\ typeCall.form = "none"
    /\ typeCall' = [form |-> "array", parsedTypes |-> Join(declaredTypes, <<",">>),
                    actualType |-> <<>>, actualTypes |-> documentedTypes]
    /\ valid' = isTypeValid(Join(declaredTypes, <<",">>), documentedTypes)
    /\ UNCHANGED <<seqVars, concVars, scanVars, validateVars, declaredTypes,
                   documentedTypes>>

\* checker.isTypeValid(declaredTypes.join(','), documentedTypes.join(sep))
IsTypeValidString ==
    /\ typeCall.form = "none"
    /\ \E sep \in TypeSeparators :
          /\ typeCall' = [form |-> "string",
                          parsedTypes |-> Join(declaredTypes, <<",">>),
                          actualType |-> Join(documentedTypes, sep),
                          actualTypes |-> <<>>]
          /\ valid' = isTypeValidString(Join(declaredTypes, <<",">>),
                                        Join(documentedTypes, sep))
    /\ UNCHANGED <<seqVars, concVars, scanVars, validateVars, declaredTypes,
                   documentedTypes>>

NextTypes ==
    \/ IsTypeValid
    \/ IsTypeValidString

SpecTypes == InitTypes /\ [][NextTypes]_vars

\* ------------------------------------------------------------------------
\* Vocabulary of the properties
\* ------------------------------------------------------------------------
Returned(o) == op = o /\ outcome = "returned"

Indexes(seq) == 1..Len(seq)

\* Number of "(" minus number of ")" among the first n characters of s.
ParenCount(s, n) ==
    Cardinality({k \in 1..n : s[k] = "("}) - Cardinality({k \in 1..n : s[k] = ")"})

\* Number of "{" minus number of "}" among the tokens before the 1-based
\* index i: the brace depth at the point token i is consumed.
BraceDepthBefore(toks, i) ==
    Cardinality({k \in 1..(i - 1) : toks[k].type = TokenType.OPEN_BRACE})
        - Cardinality({k \in 1..(i - 1) : toks[k].type = TokenType.CLOSE_BRACE})

\* The name a name or spread token gives its parameter.
NameOf(tok) ==
    IF tok.type = TokenType.SPREAD /\ Len(tok.value) >= 3
    THEN SubSeq(tok.value, 4, Len(tok.value)) ELSE tok.value

IsNameToken(tok) ==
    /\ tok.type \in {TokenType.PARAMETER_NAME, TokenType.SPREAD}
    /\ NameOf(tok) # <<>>

IsOperatorToken(tok) == tok.type \in {TokenType.OPERATOR, TokenType.ESCAPED_ASTERISK}

\* The 1-based indexes of the tokens satisfying P, in increasing order.
RECURSIVE IndexesWhere(_, _, _)
IndexesWhere(toks, P(_), i) ==
    IF i > Len(toks) THEN <<>>
    ELSE (IF P(toks[i]) THEN <<i>> ELSE <<>>) \o IndexesWhere(toks, P, i + 1)

IsOperatorParam(prm) == prm.name \in {<<"*">>, <<"\\", "*">>}
IsNamedParam(prm) == ~IsOperatorParam(prm)

\* Every parameter's optional flag is "brace depth > 0 at its token".
OptionalMatchesDepth(toks, parameters) ==
    LET nameIdx == IndexesWhere(toks, IsNameToken, 1)
        opIdx == IndexesWhere(toks, IsOperatorToken, 1)
        named == SelectSeq(parameters, IsNamedParam)
        ops == SelectSeq(parameters, IsOperatorParam)
    IN  /\ Len(named) = Len(nameIdx)
        /\ Len(ops) = Len(opIdx)
        /\ \A k \in Indexes(named) :
              named[k].optional = (BraceDepthBefore(toks, nameIdx[k]) > 0)
        /\ \A k \in Indexes(ops) :
              ops[k].optional = (BraceDepthBefore(toks, opIdx[k]) > 0)

\* The tokens of the parameter section of a variant text.
VariantTokens(text) ==
    LET scan == ParenScan(text, 0, -1, 0)
    IN  tokenize(NewTokenizer,
                 preprocessParameterString(
                     Trim(Substring(text, scan.paramStart, scan.paramEnd)))).tokens

HasParameterSection(text) ==
    LET scan == ParenScan(text, 0, -1, 0)
    IN  scan.paramStart # -1 /\ scan.paramEnd # -1

\* The segments of a syntax string that survive trimming.
SurvivingSegments(syntax) ==
    SelectSeq([k \in Indexes(Split(syntax, BR)) |-> Trim(Split(syntax, BR)[k])],
              LAMBDA seg : seg # <<>>)

AllIssuesOf(variants) ==
    UNION {{v.malformation.issues[k] : k \in Indexes(v.malformation.issues)} :
             v \in {variants[j] : j \in {j \in Indexes(variants) :
                                           "malformation" \in DOMAIN variants[j]}}}

\* ------------------------------------------------------------------------
\* Properties
\* ------------------------------------------------------------------------

\* C1: tokenize, checkMalformations, checkParameters and parseSyntax return
\* normally for every string input; no call ends by throwing.
C1_NeverThrows == outcome # "threw"

\* C2: in every result of checkParameters and parseSyntax a parameter is
\* optional iff the brace depth at the point its name token was consumed is
\* greater than zero; a name written before an opening brace is not optional.
C2_OptionalIffInsideBlock ==
    /\ Returned("checkParameters") => OptionalMatchesDepth(arg, ret.parameters)
    /\ Returned("parseSyntax") =>
          \A k \in Indexes(ret) :
              HasParameterSection(ret[k].variant) =>
                  OptionalMatchesDepth(VariantTokens(ret[k].variant),
                                       ret[k].parameters)

\* C3: a variant text without any parenthesis is parsed to a variant with an
\* empty parameter list and no malformation field.
C3_NoParensIsCleanProperty ==
    Returned("parseSyntax") =>
        \A k \in Indexes(ret) :
            (~Includes(ret[k].variant, "(") /\ ~Includes(ret[k].variant, ")")) =>
                /\ ret[k].parameters = <<>>
                /\ "malformation" \notin DOMAIN ret[k]


\* Standard matching of parentheses: the number of "(" of s left open.
RECURSIVE OpenParensLeft(_, _, _)
OpenParensLeft(s, i, open) ==
    IF i > Len(s) THEN open
    ELSE IF s[i] = "(" THEN OpenParensLeft(s, i + 1, open + 1)
    ELSE IF s[i] = ")" /\ open > 0 THEN OpenParensLeft(s, i + 1, open - 1)
    ELSE OpenParensLeft(s, i + 1, open)

HasUnmatchedOpenParen(s) == OpenParensLeft(s, 1, 0) > 0

\* After the first "(" no ")" brings the running count of parentheses,
\* taken from the start of the text, back to zero.
FirstParenNeverCloses(s) ==
    /\ Includes(s, "(")
    /\ \A k \in Indexes(s) :
          (k > IndexOf(s, "(") + 1 /\ s[k] = ")") => ParenCount(s, k) # 0

IsMissingClosingParen(v) ==
    /\ v.parameters = <<>>
    /\ "malformation" \in DOMAIN v
    /\ Len(v.malformation.issues) = 1
    /\ v.malformation.issues[1].message = <<"Missing closing parenthesis">>

\* C4 (as stated): a variant that contains an opening parenthesis without a
\* matching closing parenthesis is malformed with the single issue "missing
\* closing parenthesis" and has no parameters.
C4_UnmatchedOpenIsMissingClose ==
    Returned("parseSyntax") =>
        \A k \in Indexes(ret) :
            HasUnmatchedOpenParen(ret[k].variant) => IsMissingClosingParen(ret[k])

\* C4 (amended): a variant in which no closing parenthesis brings the running
\* parenthesis count back to zero after the first opening parenthesis is
\* malformed with the single issue "missing closing parenthesis" and has no
\* parameters.
C4_FirstParenUnclosedIsMissingClose ==
    Returned("parseSyntax") =>
        \A k \in Indexes(ret) :
            FirstParenNeverCloses(ret[k].variant) => IsMissingClosingParen(ret[k])

C4_Witness ==
    /\ Returned("parseSyntax")
    /\ wrapper = "open"
    /\ Len(ret) = 1
    /\ FirstParenNeverCloses(ret[1].variant)
    /\ Includes(body, "a")
    /\ IsMissingClosingParen(ret[1])

\* The issues the three sources find for a variant text: the location of
\* the parentheses, the malformation checker and the parameter checker.
IssuesFound(text) ==
    LET scan == ParenScan(text, 0, -1, 0)
        toks == VariantTokens(text)
    IN  IF scan.paramStart = -1 \/ scan.paramEnd = -1
        THEN <<"parenthesis">>
        ELSE IF Trim(Substring(text, scan.paramStart, scan.paramEnd)) = <<>>
        THEN <<>>
        ELSE checkMalformations(toks).issues \o checkParameters(toks).issues

\* C5: in every variant parseSyntax returns, the malformation field is
\* present iff at least one issue was found for the variant, and it never
\* holds an empty issue list.
C5_MalformationIffIssues ==
    Returned("parseSyntax") =>
        \A k \in Indexes(ret) :
            /\ ("malformation" \in DOMAIN ret[k]) <=> (IssuesFound(ret[k].variant) # <<>>)
            /\ ("malformation" \in DOMAIN ret[k]) =>
                   /\ ret[k].malformation.issues # <<>>
                   /\ Len(ret[k].malformation.issues) = Len(IssuesFound(ret[k].variant))

C5_Witness ==
    /\ Returned("parseSyntax")
    /\ wrapper = "after"
    /\ Len(ret) = 2
    /\ "malformation" \in DOMAIN ret[1]
    /\ "malformation" \notin DOMAIN ret[2]
    /\ ret[2].parameters # <<>>

\* A segment parsed alone by a new Parser.
Alone(seg) == parseSyntax(NewParser, seg)

\* C6: parseSyntax returns one variant per segment that is not empty after
\* trimming, in input order, and the variant of a segment is the one
\* parseSyntax returns for that segment alone, whatever the other segments
\* contain.
C6_VariantsIndependent ==
    op = "parseSyntax" =>
        LET segs == SurvivingSegments(arg)
        IN  (\E k \in Indexes(segs) : ~Alone(segs[k]).threw) =>
                /\ outcome = "returned"
                /\ Len(ret) = Len(segs)
                /\ \A k \in Indexes(segs) :
                      ~Alone(segs[k]).threw => <<ret[k]>> = Alone(segs[k]).ret

\* What the call o(a) gives on a Parser that has just been constructed.
OnFreshParser(o, a) ==
    IF o = "parseSyntax" THEN parseSyntax(NewParser, a)
    ELSE parseParameters(NewParser, a)

\* C7: whatever parseSyntax and parseParameters calls were made before on
\* the same Parser instance, parseSyntax(s) ends as it does on a freshly
\* created Parser, with a structurally equal result, and the result the
\* caller holds from the call before is still the one a fresh Parser gives
\* for that call's argument.
C7_RepeatedParseAsOnFreshParser ==
    /\ op = "parseSyntax" =>
          /\ outcome = Outcome(OnFreshParser(op, arg))
          /\ ret = OnFreshParser(op, arg).ret
    /\ held # <<>> =>
          /\ held[1].outcome = Outcome(OnFreshParser(held[1].op, heldArg))
          /\ held[1].ret = OnFreshParser(held[1].op, heldArg).ret

\* The same syntax string parsed twice in a row, the first parse having left
\* the tokenizer in the context of a colon, and parameters coming back.
C7_Witness ==
    /\ op = "parseSyntax" /\ outcome = "returned"
    /\ held # <<>> /\ held[1].op = "parseSyntax" /\ heldArg = arg
    /\ parser.tokenizer.lastContextToken = TokenType.COLON
    /\ ret # <<>> /\ ret[1].parameters # <<>>
    /\ "malformation" \in DOMAIN ret[1]

\* Caller c's call has ended the way parseSyntax ends on its syntax string
\* when nothing else runs, with a structurally equal result.
AsAlone(c) ==
    /\ call[c].outcome = Outcome(parseSyntax(NewParser, call[c].input))
    /\ call[c].ret = parseSyntax(NewParser, call[c].input).ret

RawDepth(toks, n) == BraceDepthBefore(toks, n + 1)

\* The closing braces that no earlier opening brace matches: the largest
\* excess of closing over opening braces in a prefix of the tokens.
ExcessCloses(toks) ==
    CHOOSE e \in 0..Len(toks) :
        /\ \A n \in 0..Len(toks) : -RawDepth(toks, n) <= e
        /\ \E n \in 0..Len(toks) : -RawDepth(toks, n) = e

\* The opening braces that no later closing brace matches.
UnmatchedOpens(toks) == RawDepth(toks, Len(toks)) + ExcessCloses(toks)

IssuesWithId(issues, id) == {k \in Indexes(issues) : issues[k].id = id}

\* C11: for tokens with B > 0 unmatched opening braces checkMalformations
\* emits exactly one "unclosed optional block" issue and it reports B
\* missing closing braces; with no unmatched opening brace it emits none.
C11_UnclosedBlockCounted ==
    Returned("checkMalformationsRev") =>
        IF UnmatchedOpens(arg) > 0
        THEN /\ Cardinality(IssuesWithId(ret, WarningCode.UNCLOSED_OPTIONAL_BLOCK)) = 1
             /\ \A k \in IssuesWithId(ret, WarningCode.UNCLOSED_OPTIONAL_BLOCK) :
                   ret[k].message[2] = UnmatchedOpens(arg)
        ELSE IssuesWithId(ret, WarningCode.UNCLOSED_OPTIONAL_BLOCK) = {}

\* Two opening braces stay unmatched after an unmatched closing brace.
C11_Witness ==
    /\ Returned("checkMalformationsRev")
    /\ UnmatchedOpens(arg) = 2
    /\ ExcessCloses(arg) = 1
    /\ IssuesWithId(ret, WarningCode.UNCLOSED_OPTIONAL_BLOCK) # {}

\* C12: checkMalformations emits exactly one "extra closing brace" issue
\* for each closing brace that no opening brace matches, E issues for E
\* such braces, and a balanced block that follows adds no brace issue.
C12_ExtraCloseCountedAndClamped ==
    op = "checkMalformations" =>
        /\ Cardinality(IssuesWithId(parser.mcIssues, WarningCode.EXTRA_CLOSING_BRACE))
              = ExcessCloses(arg)
        /\ UnmatchedOpens(arg) = 0 =>
              IssuesWithId(parser.mcIssues, WarningCode.UNCLOSED_OPTIONAL_BLOCK) = {}

\* An unmatched closing brace followed by a balanced block.
C12_Witness ==
    /\ Returned("checkMalformations")
    /\ [k \in Indexes(arg) |-> arg[k].type]
          = <<TokenType.CLOSE_BRACE, TokenType.OPEN_BRACE, TokenType.CLOSE_BRACE>>
    /\ Cardinality(IssuesWithId(ret, WarningCode.EXTRA_CLOSING_BRACE)) = 1

WarningIds == {WarningCode[n] : n \in DOMAIN WarningCode}

WellFormedIssue(issue) ==
    /\ "id" \in DOMAIN issue
    /\ issue.id \in WarningIds
    /\ issue.id \in DOMAIN WARNING_DEFINITIONS
    /\ issue.level = WARNING_DEFINITIONS[issue.id].level

\* C9: every issue in a result of parseSyntax, checkMalformations or
\* checkParameters carries one of the defined, pairwise distinct warning
\* ids, and its level is the level the registry gives that id.
C9_IssuesCarryRegisteredId ==
    /\ \A m, n \in DOMAIN WarningCode : WarningCode[m] = WarningCode[n] => m = n
    /\ Returned("parseSyntax") => \A issue \in AllIssuesOf(ret) : WellFormedIssue(issue)
    /\ Returned("checkMalformations") =>
          \A k \in Indexes(ret) : WellFormedIssue(ret[k])
    /\ Returned("checkParameters") =>
          \A k \in Indexes(ret.issues) : WellFormedIssue(ret.issues[k])

\* The name and spread tokens of toks that end their parameter without a
\* type: followed by a semicolon, by a closing brace, or by nothing.
UntypedNameTokens(toks) ==
    {i \in Indexes(toks) :
        /\ toks[i].type \in {TokenType.PARAMETER_NAME, TokenType.SPREAD}
        /\ \/ i = Len(toks)
           \/ toks[i + 1].type \in {TokenType.SEMICOLON, TokenType.CLOSE_BRACE}}

MissingTypeIssues(issues, name) ==
    {k \in Indexes(issues) :
        /\ issues[k].id = WarningCode.PARAMETER_MISSING_TYPE
        /\ issues[k].level = WarningLevel.LEVEL_2
        /\ issues[k].message[2] = name}

\* C10: checkParameters emits a "parameter has no type" issue (TYPE level)
\* for every PARAMETER_NAME or SPREAD token that is followed by a SEMICOLON,
\* by a CLOSE_BRACE or by no token at all.
C10_MissingTypeFlagged ==
    Returned("checkParameters") =>
        \A i \in UntypedNameTokens(arg) :
            Cardinality(MissingTypeIssues(ret.issues, NameOf(arg[i])))
                >= Cardinality({j \in UntypedNameTokens(arg) :
                                  NameOf(arg[j]) = NameOf(arg[i])})

\* ------------------------------------------------------------------------
\* Type validation
\* ------------------------------------------------------------------------
\* A type name as the comparison sees it: lower-cased and trimmed.
NormalType(word) == Trim(toLowerCase(word))

\* The set D of declared types; a declaration without text has the empty
\* segment as its only one.
DeclaredSet ==
    IF declaredTypes = <<>> THEN { <<>> }
    ELSE {NormalType(w) : w \in Elements(declaredTypes)}

\* The set A of documented (actual) types.
ActualSet == {NormalType(w) : w \in Elements(documentedTypes)}

C14_DeclaredLeavingOutActualRejected ==
    typeCall.form = "array" =>
        /\ DeclaredSet = ActualSet => valid
        /\ ActualSet \ DeclaredSet # {} => ~valid

\* C15: isTypeValid is true whenever the declared side or the actual side
\* contains the type "any", in any letter case.
C15_AnyAccepted ==
    (typeCall.form # "none" /\ ANY \in DeclaredSet \union ActualSet) => valid

\* Real and number are counterparts of each other.
Counterpart(type) == IF type = REAL THEN NUMBER ELSE REAL

\* C16: a declared real is satisfied by an actual number and a declared
\* number by an actual real, in any letter case, also when the actual side
\* lists several types.
C16_RealNumberEquivalent ==
    \A t \in {REAL, NUMBER} :
        (typeCall.form # "none" /\ DeclaredSet = {t}
            /\ Counterpart(t) \in ActualSet) => valid

\* ------------------------------------------------------------------------
\* Return-type clause
\* ------------------------------------------------------------------------
\* The text of a variant after its matched closing parenthesis, trimmed.
ReturnClause(text) ==
    Trim(Substring(text, ParenScan(text, 0, -1, 0).paramEnd + 1, Len(text)))

StartsWithArrow(clause) == StartsWithAt(clause, <<"-", ">">>, 0)
StartsWithColon(clause) == StartsWithAt(clause, <<":">>, 0)

\* What follows the arrow, or the leading colon, of a clause.
AfterArrow(clause) == Trim(Substring(clause, 2, Len(clause)))
AfterColon(clause) == Trim(Substring(clause, 1, Len(clause)))

\* The name and the type of a clause `-> name : type`.
ArrowName(clause) ==
    Trim(Substring(AfterArrow(clause), 0, IndexOf(AfterArrow(clause), ":")))
ArrowType(clause) ==
    Trim(Substring(AfterArrow(clause), IndexOf(AfterArrow(clause), ":") + 1,
                   Len(AfterArrow(clause))))

\* The returnType of variant v is as its return clause says.
ReturnTypeAsClause(v, clause) ==
    /\ (/\ StartsWithArrow(clause)
        /\ IndexOf(AfterArrow(clause), ":") # -1
        /\ ArrowName(clause) # <<>>
        /\ ArrowType(clause) # <<>>) =>
           /\ "returnType" \in DOMAIN v
           /\ v.returnType = [name |-> ArrowName(clause), type |-> ArrowType(clause)]
    /\ (/\ StartsWithArrow(clause)
        /\ IndexOf(AfterArrow(clause), ":") = -1
        /\ AfterArrow(clause) # <<>>) =>
           /\ "returnType" \in DOMAIN v
           /\ v.returnType = [name |-> AfterArrow(clause)]
    /\ (StartsWithColon(clause) /\ AfterColon(clause) # <<>>) =>
           /\ "returnType" \in DOMAIN v
           /\ v.returnType = [type |-> AfterColon(clause)]
    /\ (~StartsWithArrow(clause) /\ ~StartsWithColon(clause)) =>
           "returnType" \notin DOMAIN v
    /\ "returnType" \in DOMAIN v =>
           \/ "name" \in DOMAIN v.returnType /\ v.returnType.name # <<>>
           \/ "type" \in DOMAIN v.returnType /\ v.returnType.type # <<>>

\* C17: in every variant parseSyntax returns, returnType is {name, type}
\* for a clause `-> name : type` after the matched closing parenthesis,
\* {name} for `-> name`, {type} for `: type`, and absent when the clause
\* starts with neither an arrow nor a colon; a returnType that is present
\* has a name or a type.
C17_ReturnTypeForms ==
    Returned("parseSyntax") =>
        \A k \in Indexes(ret) :
            HasParameterSection(ret[k].variant) =>
                ReturnTypeAsClause(ret[k], ReturnClause(ret[k].variant))

\* ------------------------------------------------------------------------
\* Identifier typing
\* ------------------------------------------------------------------------
\* The tokens scanIdentifier emits for runs that do not begin with "...".
IdentifierTypes == {TokenType.PARAMETER_NAME, TokenType.TYPE}

\* The token types after which an identifier is a parameter name.
NameContexts ==
    {TokenType.SEMICOLON, TokenType.OPEN_BRACE, TokenType.OPEN_PAREN,
     TokenType.PARAMETER_NAME, TokenType.TYPE, TokenType.SPREAD}

\* C18: in a tokenize result an identifier token is a TYPE when the token
\* emitted just before it is a COLON, and a PARAMETER_NAME when that token
\* is a SEMICOLON, OPEN_BRACE, OPEN_PAREN, PARAMETER_NAME, TYPE or SPREAD or
\* when it is the first token; every TYPE token directly follows a COLON.
C18_IdentifierTypedByPrecedingToken ==
    Returned("tokenize") =>
        \A i \in Indexes(ret) :
            /\ ret[i].type \in IdentifierTypes =>
                  /\ (i > 1 /\ ret[i - 1].type = TokenType.COLON) =>
                         ret[i].type = TokenType.TYPE
                  /\ (i = 1 \/ ret[i - 1].type \in NameContexts) =>
                         ret[i].type = TokenType.PARAMETER_NAME
            /\ ret[i].type = TokenType.TYPE =>
                  (i > 1 /\ ret[i - 1].type = TokenType.COLON)

\* A name at the start of the input, a colon, and a type after blanks.
C18_Witness ==
    /\ Returned("tokenize")
    /\ Len(ret) = 3
    /\ ret[1].type = TokenType.PARAMETER_NAME
    /\ ret[2].type = TokenType.COLON
    /\ ret[3].type = TokenType.TYPE

\* ------------------------------------------------------------------------
\* Termination of tokenize
\* ------------------------------------------------------------------------
\* The iterations made and the tokens emitted so far are no more than the
\* characters consumed, which are no more than the input has.
ScanWithinInput ==
    op \in {"scanning", "tokenize"} =>
        /\ Len(parser.tokenizer.tokens) <= steps
        /\ steps <= parser.tokenizer.position
        /\ parser.tokenizer.position <= Len(parser.tokenizer.input)

\* An iteration of the loop moves the position forward.
ScanAdvances ==
    steps' = steps + 1 => parser'.tokenizer.position >= parser.tokenizer.position + 1

\* C19: tokenize terminates on every input; each scan step advances the
\* position by at least one character, also on a symbol no branch
\* recognizes, so the scan steps and the emitted tokens each number at most
\* the input length.
C19_TokenizeTerminates ==
    /\ []ScanWithinInput
    /\ [][ScanAdvances]_vars
    /\ <>Returned("tokenize")

\* A call has returned after as many steps as its input has characters,
\* one of them a symbol that no branch recognizes and that gave no token.
C19_Witness ==
    /\ Returned("tokenize")
    /\ \E k \in Indexes(arg) : arg[k] = ","
    /\ steps = Len(arg)
    /\ Len(ret) = Len(arg) - 1
    /\ Len(ret) > 0

\* ------------------------------------------------------------------------
\* Operator parameters
\* ------------------------------------------------------------------------
IsOperatorTyped(prm) == prm.type = OperatorType

\* The parameter an operator token at index i of toks is to give.
StarParameter(toks, i) ==
    [name |-> <<"*">>, type |-> OperatorType,
     optional |-> BraceDepthBefore(toks, i) > 0, spread |-> FALSE]

\* The operator parameters are the operator tokens' parameters, in order.
OperatorsEmitted(toks, parameters) ==
    /\ Len(SelectSeq(parameters, IsOperatorTyped))
          = Len(IndexesWhere(toks, IsOperatorToken, 1))
    /\ \A k \in Indexes(SelectSeq(parameters, IsOperatorTyped)) :
          SelectSeq(parameters, IsOperatorTyped)[k]
              = StarParameter(toks, IndexesWhere(toks, IsOperatorToken, 1)[k])

NotOperatorToken(tok) == ~IsOperatorToken(tok)
NotOperatorTyped(prm) == ~IsOperatorTyped(prm)

\* The other parameters are those of the token array without its operator
\* tokens.
OthersUntouched(toks, parameters) ==
    SelectSeq(parameters, NotOperatorTyped)
        = checkParameters(SelectSeq(toks, NotOperatorToken)).parameters

\* C20: checkParameters gives every OPERATOR and ESCAPED_ASTERISK token a
\* parameter of its own with name "*", type "operator", spread false and
\* optional set from the brace depth at the token, and the parameters built
\* from the other tokens are what they are without the operator tokens.
C20_OperatorTokensBecomeStarParameters ==
    Returned("checkParameters") =>
        /\ OperatorsEmitted(arg, ret.parameters)
        /\ OthersUntouched(arg, ret.parameters)

\* ------------------------------------------------------------------------
\* Comma-separated types
\* ------------------------------------------------------------------------
\* The first character of s at or after position p that is not a blank;
\* the empty sequence when there is none.
RECURSIVE NextNonBlank(_, _)
NextNonBlank(s, p) ==
    IF p >= Len(s) THEN <<>>
    ELSE IF CharAt(s, p) \in WhiteSpace THEN NextNonBlank(s, p + 1)
    ELSE <<CharAt(s, p)>>

\* Position just past the text of a token.
TokenEnd(tok) == tok.position + Len(tok.value)

\* C21: a type written after a colon as a comma-separated list is kept
\* whole as one type: no TYPE token of a tokenize result stops in front of
\* a comma, so that the names after the comma would start new parameters.
C21_CommaListKeptWhole ==
    Returned("tokenize") =>
        \A i \in Indexes(ret) :
            ret[i].type = TokenType.TYPE =>
                NextNonBlank(arg, TokenEnd(ret[i])) # <<",">>

\* ------------------------------------------------------------------------
\* Extra parameters
\* ------------------------------------------------------------------------
\* The parsed parameters that are to be reported: not spread, not named
\* "*", and with a lower-cased name that no lower-cased actual name equals.
ExpectedExtra ==
    SelectSeq(checkedVariant,
              LAMBDA p : /\ ~p.spread
                         /\ p.name # <<"*">>
                         /\ \A k \in Indexes(actualParamNames) :
                               toLowerCase(actualParamNames[k])
                                   # toLowerCase(p.name))

\* C22: validateVariantParameters reports as extra exactly the parsed
\* parameters that are not spread, are not named "*" and whose lower-cased
\* name is not among the lower-cased actual names.
C22_ExtraAreUnknownNames ==
    validation.form # "none" =>
        validation.extraParams = LowerCaseNames(ExpectedExtra)

\* ------------------------------------------------------------------------
\* Optional flag and finalization
\* ------------------------------------------------------------------------
\* The tokens at which a parameter under construction is finished.
IsFinishingToken(tok) ==
    tok.type \in {TokenType.PARAMETER_NAME, TokenType.SPREAD, TokenType.SEMICOLON}

\* The 1-based index of the token at which the parameter started by token
\* i is finished; one past the last token when it is finished at the end.
RECURSIVE FinishedAt(_, _)
FinishedAt(toks, i) ==
    IF i + 1 > Len(toks) THEN Len(toks) + 1
    ELSE IF IsFinishingToken(toks[i + 1]) THEN i + 1
    ELSE FinishedAt(toks, i + 1)

\* The named parameters with the index of the name token of each.
NamedParams(parameters) == SelectSeq(parameters, NotOperatorTyped)
NameIndexes(toks) == IndexesWhere(toks, IsNameToken, 1)

Colons(toks) == {i \in Indexes(toks) : toks[i].type = TokenType.COLON}

ColonsWithoutName(toks) ==
    {i \in Colons(toks) :
        \/ i = 1
        \/ toks[i - 1].type \notin {TokenType.PARAMETER_NAME, TokenType.SPREAD}}

ColonsBefore(toks, types) ==
    {i \in Colons(toks) : i < Len(toks) /\ toks[i + 1].type \in types}

CountWithId(issues, id) == Cardinality(IssuesWithId(issues, id))

\* One issue of each kind for each colon the kind applies to, and no other.
ColonIssuesAsTokens(toks, issues) ==
    /\ CountWithId(issues, WarningCode.UNEXPECTED_COLON_NO_PARAM)
          = Cardinality(ColonsWithoutName(toks))
    /\ CountWithId(issues, WarningCode.DOUBLE_COLON)
          = Cardinality(ColonsBefore(toks, {TokenType.COLON}))
    /\ CountWithId(issues, WarningCode.UNEXPECTED_SEMICOLON_AFTER_COLON)
          = Cardinality(ColonsBefore(toks, {TokenType.SEMICOLON}))
    /\ CountWithId(issues, WarningCode.UNEXPECTED_CLOSING_BRACE_AFTER_COLON)
          = Cardinality(ColonsBefore(toks, {TokenType.CLOSE_BRACE}))
    /\ CountWithId(issues, WarningCode.PARAMETER_EMPTY_TYPE_AFTER_COLON)
          = Cardinality(Colons(toks) \cap {Len(toks)})

\* C24: for every COLON token checkMalformations emits "unexpected colon"
\* iff the token before it is not a PARAMETER_NAME or SPREAD, "double colon"
\* iff the next token is a COLON, "unexpected token after colon" iff the
\* next token is a SEMICOLON or CLOSE_BRACE, and "empty type after colon"
\* iff the colon is the last token.
C24_ColonIssuesPerColon ==
    /\ Returned("checkMalformationsRev") => ColonIssuesAsTokens(arg, ret)
    /\ Returned("checkMalformations") => ColonIssuesAsTokens(arg, ret)

\* All four kinds at once: a colon without a name and before a colon, and
\* a last colon.
C24_Witness ==
    /\ Returned("checkMalformationsRev")
    /\ Cardinality(Colons(arg)) >= 2
    /\ ColonsBefore(arg, {TokenType.COLON}) # {}
    /\ CountWithId(ret, WarningCode.PARAMETER_EMPTY_TYPE_AFTER_COLON) = 1
    /\ CountWithId(ret, WarningCode.UNEXPECTED_COLON_NO_PARAM) >= 1

\* ------------------------------------------------------------------------
\* Empty parameters
\* ------------------------------------------------------------------------
Semicolons(toks) == {i \in Indexes(toks) : toks[i].type = TokenType.SEMICOLON}

DoubleSemicolons(toks) ==
    {i \in Semicolons(toks) : i < Len(toks) /\ toks[i + 1].type = TokenType.SEMICOLON}

StartsWithSemicolon(toks) == toks # <<>> /\ toks[1].type = TokenType.SEMICOLON

EmptyParameterIssuesAsTokens(toks, issues) ==
    /\ CountWithId(issues, WarningCode.EMPTY_PARAMETER_DOUBLE_SEMICOLON)
           = Cardinality(DoubleSemicolons(toks))
    /\ CountWithId(issues, WarningCode.EMPTY_PARAMETER_AT_START)
           = IF StartsWithSemicolon(toks) THEN 1 ELSE 0

\* C25: checkMalformations returns exactly one "double semicolon" issue for
\* each SEMICOLON immediately followed by a SEMICOLON, and exactly one
\* "semicolon at start" issue when, and only when, the first token is a
\* SEMICOLON.
C25_EmptyParameterIssuesOnce ==
    Returned("checkMalformations") => EmptyParameterIssuesAsTokens(arg, ret)

\* The revised checker, which calls checkEmptyParameters once per call.
C25_RevisedEmptyParameterIssuesOnce ==
    Returned("checkMalformationsRev") => EmptyParameterIssuesAsTokens(arg, ret)

\* ------------------------------------------------------------------------
\* Independence of the two checkers
\* ------------------------------------------------------------------------
\* The tokens tokenize returns for the parameter string of the state.
TokensOfBody == tokenize(NewParser.tokenizer, body).tokens

CheckerCalls == {"checkMalformations", "checkParameters"}

IntroIndexes(toks) == {i \in Indexes(toks) : IsNameToken(toks[i]) \/ IsOperatorToken(toks[i])}

\* A parameter as its introducing token describes it.
IntroducedBy(param, tok) ==
    /\ (param.type = OperatorType) = IsOperatorToken(tok)
    /\ param.spread = (tok.type = TokenType.SPREAD)
    /\ tok.type # TokenType.SPREAD => param.name = tok.value

\* The position in the token list at which the parameter of introducing
\* token i is appended: an operator at its own token, a named parameter at
\* the token that finishes it.
AppendedAt(toks, i) == IF IsOperatorToken(toks[i]) THEN i ELSE FinishedAt(toks, i)

SourcePosition(toks, i) == i

\* The introducing token that is n-th when ordered by Key.
NthIntro(toks, Key(_, _), n) ==
    CHOOSE i \in IntroIndexes(toks) :
        Cardinality({j \in IntroIndexes(toks) : Key(toks, j) <= Key(toks, i)}) = n

InOrderOf(parameters, toks, Key(_, _)) ==
    /\ Len(parameters) = Cardinality(IntroIndexes(toks))
    /\ \A n \in Indexes(parameters) :
          IntroducedBy(parameters[n], toks[NthIntro(toks, Key, n)])

\* C27 as stated: checkParameters returns one parameter per introducing
\* token, in the source order of those tokens.
C27_ParametersInSourceOrder ==
    Returned("checkParameters") => InOrderOf(ret.parameters, arg, SourcePosition)

\* C27, amended: the parameters are in the order in which they are
\* appended, an operator parameter at its own token and a named parameter
\* when it is finished, so an operator token that follows a name token
\* with no semicolon in between comes first.
C27_ParametersInAppendOrder ==
    Returned("checkParameters") => InOrderOf(ret.parameters, arg, AppendedAt)

\* An operator parameter returned before the named parameter whose name
\* token precedes the operator token.
C27_Witness ==
    /\ Returned("checkParameters")
    /\ Len(ret.parameters) >= 2
    /\ ret.parameters[1].type = OperatorType
    /\ IsNameToken(arg[1])
    /\ \E i \in IntroIndexes(arg) : IsOperatorToken(arg[i]) /\ FinishedAt(arg, 1) > i

\* ------------------------------------------------------------------------
\* Return clause after an empty parameter list
\* ------------------------------------------------------------------------
\* The trimmed text between the first "(" and its matching ")".
ParamString(text) ==
    Trim(Substring(text, ParenScan(text, 0, -1, 0).paramStart,
                   ParenScan(text, 0, -1, 0).paramEnd))

\* The clause names a return value or its type.
ClausePresent(clause) ==
    \/ StartsWithArrow(clause) /\ AfterArrow(clause) # <<>>
    \/ StartsWithColon(clause) /\ AfterColon(clause) # <<>>

\* C28: a variant parseSyntax returns whose parameter list between the
\* matched parentheses is empty or whitespace-only has a returnType
\* whenever a return clause follows the closing parenthesis.
C28_ReturnTypeAfterEmptyList ==
    Returned("parseSyntax") =>
        \A k \in Indexes(ret) :
            (/\ HasParameterSection(ret[k].variant)
             /\ ParamString(ret[k].variant) = <<>>
             /\ ClausePresent(ReturnClause(ret[k].variant))) =>
                "returnType" \in DOMAIN ret[k]

\* With a parameter list that is not empty the clause is parsed.
C28_ReturnTypeAfterNonEmptyList ==
    Returned("parseSyntax") =>
        \A k \in Indexes(ret) :
            (/\ HasParameterSection(ret[k].variant)
             /\ ParamString(ret[k].variant) # <<>>
             /\ ClausePresent(ReturnClause(ret[k].variant))) =>
                "returnType" \in DOMAIN ret[k]

\* ------------------------------------------------------------------------
\* Parameters flagged as having no type
\* ------------------------------------------------------------------------
\* The name and spread tokens after which the missing-type issue is
\* emitted: those followed by a semicolon or a brace.
FlaggedTokens(toks) ==
    {i \in Indexes(toks) :
        /\ toks[i].type \in {TokenType.PARAMETER_NAME, TokenType.SPREAD}
        /\ i < Len(toks)
        /\ toks[i + 1].type \in {TokenType.SEMICOLON, TokenType.OPEN_BRACE,
                                  TokenType.CLOSE_BRACE}}

\* The TYPE tokens that directly follow a COLON between name token i and
\* the token that finishes its parameter.
TypesBeforeFinish(toks, i) ==
    {j \in (i + 1)..(FinishedAt(toks, i) - 1) :
        toks[j].type = TokenType.TYPE /\ toks[j - 1].type = TokenType.COLON}

LastOf(S) == CHOOSE j \in S : \A k \in S : k <= j

\* One issue per flagged token, and one named parameter per name token.
FlaggedAsTokens(toks, result) ==
    /\ CountWithId(result.issues, WarningCode.PARAMETER_MISSING_TYPE)
           = Cardinality(FlaggedTokens(toks))
    /\ Len(NamedParams(result.parameters)) = Len(NameIndexes(toks))

\* C29 as stated: every parameter for which checkParameters emits a
\* "parameter has no type" issue has type "unknown" in the returned list.
C29_FlaggedHasUnknownType ==
    Returned("checkParameters") =>
        /\ FlaggedAsTokens(arg, ret)
        /\ \A k \in Indexes(NameIndexes(arg)) :
              NameIndexes(arg)[k] \in FlaggedTokens(arg) =>
                  NamedParams(ret.parameters)[k].type = UnknownType

\* C29, amended: a flagged parameter has type "unknown" unless a COLON and
\* a TYPE follow before the parameter is finished (after the brace that
\* caused the issue); it then has the last such type.
C29_FlaggedTypeFromLaterColon ==
    Returned("checkParameters") =>
        /\ FlaggedAsTokens(arg, ret)
        /\ \A k \in Indexes(NameIndexes(arg)) :
              NameIndexes(arg)[k] \in FlaggedTokens(arg) =>
                  NamedParams(ret.parameters)[k].type =
                      IF TypesBeforeFinish(arg, NameIndexes(arg)[k]) = {}
                      THEN UnknownType
                      ELSE arg[LastOf(TypesBeforeFinish(arg, NameIndexes(arg)[k]))].value

\* A flagged parameter that was given a type.
C29_Witness ==
    /\ Returned("checkParameters")
    /\ FlaggedAsTokens(arg, ret)
    /\ \E k \in Indexes(NameIndexes(arg)) :
          /\ NameIndexes(arg)[k] \in FlaggedTokens(arg)
          /\ TypesBeforeFinish(arg, NameIndexes(arg)[k]) # {}
          /\ NamedParams(ret.parameters)[k].type # UnknownType

\* ------------------------------------------------------------------------
\* Brace depth of the two checkers
\* ------------------------------------------------------------------------
\* The depth checkBraceBalance holds before token i: a closing brace at
\* depth zero leaves it at zero.
RECURSIVE ClampedDepthBefore(_, _)
ClampedDepthBefore(toks, i) ==
    IF i <= 1 THEN 0
    ELSE LET d == ClampedDepthBefore(toks, i - 1)
         IN  CASE toks[i - 1].type = TokenType.OPEN_BRACE -> d + 1
               [] toks[i - 1].type = TokenType.CLOSE_BRACE -> IF d > 0 THEN d - 1 ELSE 0
               [] OTHER -> d

\* Some closing brace of toks has no opening brace before it.
HasExtraClosingBrace(toks) ==
    \E i \in 1..(Len(toks) + 1) : BraceDepthBefore(toks, i) < 0

\* C30: the parameter checker follows the clamped brace depth of the
\* malformation checker: a parameter whose name token lies inside a block
\* by that depth is optional, also after an extra closing brace.
C30_OptionalByClampedDepth ==
    Returned("checkParameters") =>
        /\ Len(NamedParams(ret.parameters)) = Len(NameIndexes(arg))
        /\ \A k \in Indexes(NameIndexes(arg)) :
              ClampedDepthBefore(arg, NameIndexes(arg)[k]) > 0 =>
                  NamedParams(ret.parameters)[k].optional

\* Without an extra closing brace the two depths are the same and the
\* parameters inside a block are optional.
C30_OptionalByDepthWhenBalanced ==
    (Returned("checkParameters") /\ ~HasExtraClosingBrace(arg)) =>
        /\ Len(NamedParams(ret.parameters)) = Len(NameIndexes(arg))
        /\ \A k \in Indexes(NameIndexes(arg)) :
              /\ ClampedDepthBefore(arg, NameIndexes(arg)[k])
                    = BraceDepthBefore(arg, NameIndexes(arg)[k])
              /\ ClampedDepthBefore(arg, NameIndexes(arg)[k]) > 0 =>
                    NamedParams(ret.parameters)[k].optional

============================================================================
